---- MODULE Spec2Model ----
(***************************************************************************)
(* Model of the multi-agent research orchestration:                        *)
(*   - ResearchCrew.conduct_research, the iterative quality-gated loop,    *)
(*     with its two worker pools (_conduct_parallel_research and           *)
(*     _conduct_targeted_research) run by concurrent units;                *)
(*   - QualityController.evaluate_findings and its text parsers            *)
(*     (_extract_score, _extract_section).                                 *)
(*                                                                         *)
(* A text is a sequence of tokens.  A token is one character ("7", ".",    *)
(* ":", " ", "\n", "w" for any other character) or one marker word         *)
(* ("COMPLETENESS_SCORE", ...), which the parsers only ever test with      *)
(* `marker in line`.  A number is an exact fraction [num, den].            *)
(***************************************************************************)
EXTENDS Integers, Sequences, FiniteSets, TLC

VARIABLES
    pc,          \* position of conduct_research
    enable_quality_control, \* ResearchCrew.enable_quality_control
    num_sub_researchers,    \* ResearchCrew.num_sub_researchers
    iteration,   \* local `iteration` of conduct_research
    findings,    \* local `findings` of conduct_research (accumulated)
    units,       \* every submitted unit (future) so far -> its status
    angles,      \* unit -> research angle of its SubResearcher
    pool,        \* the units submitted to the pool now running
    collected,   \* futures the as_completed loop has handled
    poolFindings,\* the pool's local result list
    text,        \* the judgment text the model returned last
    report,      \* the QualityReport returned last by evaluate_findings
    rounds,      \* number of worker pools started so far
    gateAt,      \* for each evaluate_findings call so far: `rounds` at the
                 \* call and the number of findings passed
    result,      \* what conduct_research returned, or the exception it raised
    plan,        \* the plan text the planning model returned
    progress_callback,      \* whether conduct_research was given a callback
    sources,     \* SubResearcher.conduct_research: local `all_sources`
    unique_sources,         \* SubResearcher.conduct_research: the kept sources
    kwargs,      \* the keyword arguments ResearchCrew(...) is called with
    cancel_requested,       \* whether the caller has asked to cancel the run
    now,         \* the clock: time.time(), datetime.now()
    threads,     \* thread -> its position and locals, in the concurrent parts
    rate_limiter,           \* the RateLimiter object
    thought_logger,         \* the ThoughtLogger object and its log files
    search_tool,            \* a TavilySearchTool object and its SearchCache
    sub_researcher,         \* the locals of one SubResearcher.conduct_research
    bedrock      \* the BedrockClient object

\* the objects besides the crew
toolVars == <<now, threads, rate_limiter, thought_logger, search_tool,
              sub_researcher, bedrock>>

vars == <<pc, enable_quality_control, num_sub_researchers, iteration, findings,
          units, angles, pool, collected, poolFindings, text, report,
          rounds, gateAt, result, plan, progress_callback, sources,
          unique_sources, kwargs, cancel_requested, toolVars>>

\* the crew and its caller
crewVars == <<pc, enable_quality_control, num_sub_researchers, iteration,
              findings, units, angles, pool, collected, poolFindings, text,
              report, rounds, gateAt, result, plan, progress_callback,
              sources, unique_sources, kwargs, cancel_requested>>

\* the value of an object the specification at hand does not use
Unused == [unused |-> TRUE]
ToolsUnused ==
    /\ now = 0
    /\ threads = Unused
    /\ rate_limiter = Unused
    /\ thought_logger = Unused
    /\ search_tool = Unused
    /\ sub_researcher = Unused
    /\ bedrock = Unused

-----------------------------------------------------------------------------
(* Bounds of the model. *)

\* longest judgment text (in tokens) the parser specification enumerates
MaxTextLen == 5
\* most lines of a plan text the planning specification enumerates
MaxPlanLines == 6
\* longest source list the deduplication specification enumerates
MaxSources == 3
\* largest num_sub_researchers a crew is built with
MaxResearchers == 2
\* the threads calling the RateLimiter, and the last second of its clock
MaxLimiterThreads == 2
MaxTime == 3
\* the calls of log_thought and of start_new_session
MaxThoughts == 2
MaxSessions == 2
\* the frames of invoke_model the interpreter's recursion limit allows on one
\* thread's stack
MaxRecursion == 2
\* the largest max_searches given to SubResearcher.conduct_research, and the
\* most queries the model proposes in one answer
MaxBudget == 4
MaxProposed == 4
\* the calls of search on one TavilySearchTool
MaxSearchCalls == 2
\* the arguments all the threads give to check_rate_limit
max_calls == 2
window_seconds == 2

(* Program constants. *)
max_iterations == 3
quality_threshold == 75
\* missing_aspects[:2]
TargetedLimit == 2
\* angles[:5]
AngleLimit == 5
\* improvements[:100]
ImprovementsCut == 100
\* len(angle) > 10
MinAngleLen == 10
\* _generate_search_queries: queries[:3]
QueryLimit == 3
\* SearchCache.set(..., ttl_hours: int = 24)
ttl_hours == 24
\* config.py, AgentConfig.default_sub_researchers
default_sub_researchers == 4

-----------------------------------------------------------------------------
(* Exact fractions standing for Python floats. *)

RECURSIVE GCD(_, _)
GCD(a, b) == IF b = 0 THEN a ELSE GCD(b, a % b)

Frac(n, d) == LET g == GCD(n, d) IN [num |-> n \div g, den |-> d \div g]
Zero == [num |-> 0, den |-> 1]
FromInt(k) == [num |-> k, den |-> 1]
FracAdd(x, y) == Frac(x.num * y.den + y.num * x.den, x.den * y.den)
FracDiv(x, k) == Frac(x.num, x.den * k)
FracGE(x, y) == x.num * y.den >= y.num * x.den
FracLT(x, y) == x.num * y.den < y.num * x.den

RECURSIVE Pow10(_)
Pow10(k) == IF k = 0 THEN 1 ELSE 10 * Pow10(k - 1)

-----------------------------------------------------------------------------
(* Characters and strings. *)

Digits == {"0", "1", "2", "3", "4", "5", "6", "7", "8", "9"}
DigitVal(c) ==
    CASE c = "0" -> 0 [] c = "1" -> 1 [] c = "2" -> 2 [] c = "3" -> 3
      [] c = "4" -> 4 [] c = "5" -> 5 [] c = "6" -> 6 [] c = "7" -> 7
      [] c = "8" -> 8 [] c = "9" -> 9
\* the character class [\d.]
NumChars == Digits \cup {"."}

Range(s) == {s[i] : i \in 1..Len(s)}
Take(s, n) == SubSeq(s, 1, IF n < Len(s) THEN n ELSE Len(s))
Min(a, b) == IF a < b THEN a ELSE b

\* str.split('\n'): k separators give k+1 parts, the empty text one empty part
RECURSIVE SplitFrom(_, _, _, _)
SplitFrom(s, sep, i, cur) ==
    IF i > Len(s) THEN <<cur>>
    ELSE IF s[i] = sep THEN <<cur>> \o SplitFrom(s, sep, i + 1, <<>>)
    ELSE SplitFrom(s, sep, i + 1, Append(cur, s[i]))
Split(s, sep) == SplitFrom(s, sep, 1, <<>>)

\* sep.join(parts)
RECURSIVE Join(_, _)
Join(parts, sep) ==
    IF parts = <<>> THEN <<>>
    ELSE IF Len(parts) = 1 THEN parts[1]
    ELSE parts[1] \o <<sep>> \o Join(Tail(parts), sep)

\* str.strip(): leading and trailing whitespace removed
RECURSIVE LStrip(_)
LStrip(s) == IF s # <<>> /\ s[1] \in {" ", "\n"} THEN LStrip(Tail(s)) ELSE s
RECURSIVE RStrip(_)
RStrip(s) ==
    IF s # <<>> /\ s[Len(s)] \in {" ", "\n"}
    THEN RStrip(SubSeq(s, 1, Len(s) - 1)) ELSE s
Strip(s) == RStrip(LStrip(s))

\* line.split(':', 1)[1] when len(parts) > 1, and "no second part" otherwise
HasColon(line) == \E i \in 1..Len(line) : line[i] = ":"
AfterColon(line) ==
    LET i == CHOOSE k \in 1..Len(line) :
                 line[k] = ":" /\ \A j \in 1..(k - 1) : line[j] # ":"
    IN SubSeq(line, i + 1, Len(line))

-----------------------------------------------------------------------------
(* re.findall(r'[\d.]+', line)[0] and float(). *)

HasNumber(line) == \E i \in 1..Len(line) : line[i] \in NumChars
FirstNumber(line) ==
    LET a == CHOOSE k \in 1..Len(line) :
                 line[k] \in NumChars /\ \A j \in 1..(k - 1) : line[j] \notin NumChars
        b == CHOOSE k \in a..Len(line) :
                 /\ \A j \in a..k : line[j] \in NumChars
                 /\ (k = Len(line) \/ line[k + 1] \notin NumChars)
    IN SubSeq(line, a, b)

Dots(run) == Cardinality({i \in 1..Len(run) : run[i] = "."})
\* float(s) raises ValueError unless s is digits with at most one point
FloatOk(run) == Dots(run) <= 1 /\ \E i \in 1..Len(run) : run[i] \in Digits

RECURSIVE DigitsValue(_)
DigitsValue(run) ==
    IF run = <<>> THEN 0
    ELSE IF run[Len(run)] = "." THEN DigitsValue(SubSeq(run, 1, Len(run) - 1))
    ELSE 10 * DigitsValue(SubSeq(run, 1, Len(run) - 1)) + DigitVal(run[Len(run)])
FracDigits(run) ==
    IF Dots(run) = 0 THEN 0
    ELSE Len(run) - (CHOOSE k \in 1..Len(run) : run[k] = ".")
Float(run) == Frac(DigitsValue(run), Pow10(FracDigits(run)))

-----------------------------------------------------------------------------
(* QualityController._extract_score *)

\* a mutant: an unparsable number is skipped and the search goes on
RECURSIVE ScoreFromSkipping(_, _, _)
ScoreFromSkipping(lines, marker, i) ==
    IF i > Len(lines) THEN Zero
    ELSE IF marker \in Range(lines[i]) /\ HasNumber(lines[i])
              /\ FloatOk(FirstNumber(lines[i]))
         THEN Float(FirstNumber(lines[i]))
         ELSE ScoreFromSkipping(lines, marker, i + 1)

RECURSIVE ScoreFrom(_, _, _)
ScoreFrom(lines, marker, i) ==
    IF i > Len(lines) THEN Zero
    ELSE IF marker \in Range(lines[i]) /\ HasNumber(lines[i])
         THEN IF FloatOk(FirstNumber(lines[i]))
              THEN Float(FirstNumber(lines[i]))
              ELSE Zero          \* ValueError, swallowed by the bare except
         ELSE ScoreFrom(lines, marker, i + 1)

extract_score(txt, marker) == ScoreFrom(Split(txt, "\n"), marker, 1)

-----------------------------------------------------------------------------
(* QualityController._extract_section *)

\* the words whose "<word>:" ends a section; 'SCORE:' is the tail of every
\* score marker
StopWords == {"COMPLETENESS_SCORE", "ACCURACY_SCORE", "QUALITY_SCORE",
              "CONFIDENCE", "GAPS", "IMPROVEMENTS", "EVALUATION",
              "SUGGESTED_QUERIES", "MISSING_INFO", "CONTRADICTIONS"}
HitsNextSection(line) ==
    \E i \in 1..(Len(line) - 1) : line[i] \in StopWords /\ line[i + 1] = ":"

\* the loop over lines; the value is the list `result`
RECURSIVE SectionFrom(_, _, _, _, _)
SectionFrom(lines, marker, i, capture, acc) ==
    IF i > Len(lines) THEN acc
    ELSE LET line == lines[i] IN
         IF marker \in Range(line)
         THEN SectionFrom(lines, marker, i + 1, TRUE,
                  IF HasColon(line) /\ Strip(AfterColon(line)) # <<>>
                  THEN Append(acc, Strip(AfterColon(line))) ELSE acc)
         ELSE IF capture /\ Strip(line) # <<>> /\ HitsNextSection(line)
         THEN acc
         ELSE IF capture /\ Strip(line) # <<>>
         THEN SectionFrom(lines, marker, i + 1, capture, Append(acc, Strip(line)))
         ELSE SectionFrom(lines, marker, i + 1, capture, acc)

extract_section(txt, marker) ==
    Join(SectionFrom(Split(txt, "\n"), marker, 1, FALSE, <<>>), "\n")

-----------------------------------------------------------------------------
(* QualityController.evaluate_findings: the report parsed from the judgment *)

\* a mutant: the overall quality is the completeness score alone
evaluate_findings_unaveraged(txt) ==
    LET completeness == extract_score(txt, "COMPLETENESS_SCORE")
        accuracy == extract_score(txt, "ACCURACY_SCORE")
        overall == completeness
    IN [completeness_score |-> completeness,
        accuracy_score |-> accuracy,
        confidence |-> extract_score(txt, "CONFIDENCE"),
        missing_info |-> extract_section(txt, "MISSING_INFO"),
        contradictions |-> extract_section(txt, "CONTRADICTIONS"),
        improvements |-> extract_section(txt, "IMPROVEMENTS"),
        evaluation |-> extract_section(txt, "EVALUATION"),
        overall_quality |-> overall,
        recommendation |-> IF FracGE(overall, FromInt(75))
                           THEN "finalize" ELSE "iterate"]
\* lines 173-189: the report built from the judgment text `response`; the
\* findings passed in reach the report only through that text
evaluate_findings(txt) ==
    LET completeness == extract_score(txt, "COMPLETENESS_SCORE")
        accuracy == extract_score(txt, "ACCURACY_SCORE")
        overall == FracDiv(FracAdd(completeness, accuracy), 2)
    IN [completeness_score |-> completeness,
        accuracy_score |-> accuracy,
        confidence |-> extract_score(txt, "CONFIDENCE"),
        missing_info |-> extract_section(txt, "MISSING_INFO"),
        contradictions |-> extract_section(txt, "CONTRADICTIONS"),
        improvements |-> extract_section(txt, "IMPROVEMENTS"),
        evaluation |-> extract_section(txt, "EVALUATION"),
        overall_quality |-> overall,
        recommendation |-> IF FracGE(overall, FromInt(75))
                           THEN "finalize" ELSE "iterate"]

\* dict.get(key, default) on a report
Get(rep, key, default) == IF key \in DOMAIN rep THEN rep[key] ELSE default

NoReport == [none |-> TRUE]
NoResult == [none |-> TRUE]

-----------------------------------------------------------------------------
(* Findings and work units. *)

\* what SubResearcher.conduct_research returns for unit u (no 'error' key)
Result(u) ==
    [angle |-> angles[u], findings |-> "synthesis", error |-> FALSE, unit |-> u]
\* the {'angle', 'findings': f"Error during research: {str(e)}", 'error': True}
\* dict for the exception e, named by the call that raised it
ErrorFinding(u, e) ==
    [angle |-> angles[u], findings |-> e, error |-> TRUE, unit |-> u]
\* the fact-check report appended for synthesis
FactCheckFinding ==
    [angle |-> [kind |-> "fact_check"], findings |-> "fact_check_report",
     error |-> FALSE, unit |-> <<0, 0>>]

Done(u) == units[u] \in {"returned", "raised"}

\* LeadResearcher._parse_research_angles.  A plan text is a sequence of
\* tokens; every token is one character ("bullet" is the bullet character
\* U+2022) but the word "elevenchars", which has eleven.
TokenLen(t) == IF t = "elevenchars" THEN 11 ELSE 1
RECURSIVE TextLen(_)
TextLen(s) == IF s = <<>> THEN 0 ELSE TokenLen(s[1]) + TextLen(Tail(s))

\* str.startswith
StartsWith(s, prefix) ==
    Len(prefix) <= Len(s) /\ SubSeq(s, 1, Len(prefix)) = prefix
\* str.lstrip(chars)
RECURSIVE LStripChars(_, _)
LStripChars(s, chars) ==
    IF s # <<>> /\ s[1] \in chars THEN LStripChars(Tail(s), chars) ELSE s

\* line 154: the markers that open an item
ItemMarkers == {<<"1", ".">>, <<"2", ".">>, <<"3", ".">>, <<"4", ".">>,
                <<"5", ".">>, <<"-">>, <<"bullet">>}
\* line 155: the characters lstrip removes
ItemChars == Digits \cup {".", "-", "bullet"}
IsItem(line) == \E marker \in ItemMarkers : StartsWith(Strip(line), marker)
ItemAngle(line) == Strip(LStripChars(Strip(line), ItemChars))

\* lines 152-157: the angles of the item lines that are long enough
RECURSIVE AnglesFrom(_, _)
AnglesFrom(lines, i) ==
    IF i > Len(lines) THEN <<>>
    ELSE IF IsItem(lines[i]) /\ TextLen(ItemAngle(lines[i])) > MinAngleLen
    THEN <<[kind |-> "planned", of |-> ItemAngle(lines[i])]>>
             \o AnglesFrom(lines, i + 1)
    ELSE AnglesFrom(lines, i + 1)

\* lines 160-165: the four default angles
DefaultAngles == [i \in 1..4 |-> [kind |-> "default", n |-> i]]
\* a mutant: no default angles when nothing was parsed
parse_research_angles_no_default(txt) ==
    Take(AnglesFrom(Split(txt, "\n"), 1), AngleLimit)
\* angles[:5], or the default angles when none was parsed
parse_research_angles(txt) ==
    LET parsed == AnglesFrom(Split(txt, "\n"), 1)
    IN IF parsed # <<>> THEN Take(parsed, AngleLimit) ELSE DefaultAngles

\* _conduct_targeted_research, lines 307-319: the targeted angles.  The
\* slice improvements[:100] of line 316 counts characters: a marker word is
\* one token of a text and several characters of the string, and the cut
\* may fall inside it.
targeted_angles(missing_aspects, improvements) ==
    LET fromAspects ==
            [i \in 1..Min(Len(missing_aspects), TargetedLimit) |->
                [kind |-> "aspect", of |-> missing_aspects[i]]]
        \* the characters of a token
        Characters(t) ==
            CASE t = "COMPLETENESS_SCORE" ->
                     <<"C", "O", "M", "P", "L", "E", "T", "E", "N", "E",
                       "S", "S", "_", "S", "C", "O", "R", "E">>
              [] t = "ACCURACY_SCORE" ->
                     <<"A", "C", "C", "U", "R", "A", "C", "Y", "_", "S",
                       "C", "O", "R", "E">>
              [] t = "QUALITY_SCORE" ->
                     <<"Q", "U", "A", "L", "I", "T", "Y", "_", "S", "C",
                       "O", "R", "E">>
              [] t = "CONFIDENCE" ->
                     <<"C", "O", "N", "F", "I", "D", "E", "N", "C", "E">>
              [] t = "GAPS" ->
                     <<"G", "A", "P", "S">>
              [] t = "IMPROVEMENTS" ->
                     <<"I", "M", "P", "R", "O", "V", "E", "M", "E", "N",
                       "T", "S">>
              [] t = "EVALUATION" ->
                     <<"E", "V", "A", "L", "U", "A", "T", "I", "O", "N">>
              [] t = "SUGGESTED_QUERIES" ->
                     <<"S", "U", "G", "G", "E", "S", "T", "E", "D", "_",
                       "Q", "U", "E", "R", "I", "E", "S">>
              [] t = "MISSING_INFO" ->
                     <<"M", "I", "S", "S", "I", "N", "G", "_", "I", "N",
                       "F", "O">>
              [] t = "CONTRADICTIONS" ->
                     <<"C", "O", "N", "T", "R", "A", "D", "I", "C", "T",
                       "I", "O", "N", "S">>
              [] t = "elevenchars" ->
                     <<"e", "l", "e", "v", "e", "n", "c", "h", "a", "r",
                       "s">>
              [] OTHER -> <<t>>
        \* the first i tokens of the text, character by character
        chars[i \in 0..Len(improvements)] ==
            IF i = 0 THEN <<>> ELSE chars[i - 1] \o Characters(improvements[i])
    IN IF fromAspects # <<>> THEN fromAspects
       ELSE IF improvements # <<>>
       THEN <<[kind |-> "improvement",
               of |-> Take(chars[Len(improvements)], ImprovementsCut)]>>
       ELSE <<>>

\* conduct_research, lines 135-136: what the loop reads from the report
MissingAspects(rep) == Get(rep, "missing_aspects", <<>>)
Improvements(rep) == Get(rep, "improvements", <<>>)

\* a mutant: the threshold itself does not pass
MeetsThresholdStrict(rep) == FracLT(FromInt(quality_threshold), rep.overall_quality)
\* conduct_research, line 123
MeetsThreshold(rep) == FracGE(rep.overall_quality, FromInt(quality_threshold))
\* a mutant: one more targeted round is allowed
MayIterateOffByOne(it) == it <= max_iterations
\* conduct_research, line 133
MayIterate(it) == it < max_iterations

\* executor.submit for each researcher of a new pool
Submit(as) ==
    LET new == {<<rounds + 1, i>> : i \in 1..Len(as)} IN
    /\ rounds' = rounds + 1
    /\ pool' = new
    /\ units' = [u \in DOMAIN units \cup new |->
                    IF u \in new THEN "submitted" ELSE units[u]]
    /\ angles' = [u \in DOMAIN angles \cup new |->
                    IF u \in new THEN as[u[2]] ELSE angles[u]]
    /\ collected' = {}
    /\ poolFindings' = <<>>

-----------------------------------------------------------------------------
(* The judgment texts the orchestration specification draws from. *)

ScoreLine(marker, d1, d2) == <<marker, ":", " ", d1, d2, "\n">>
JudgeTexts ==
    { \* 80 / 80: quality met
      ScoreLine("COMPLETENESS_SCORE", "8", "0") \o ScoreLine("ACCURACY_SCORE", "8", "0"),
      \* 70 / 80: exactly the threshold
      ScoreLine("COMPLETENESS_SCORE", "7", "0") \o ScoreLine("ACCURACY_SCORE", "8", "0"),
      \* 74 / 75: just below, two missing aspects and improvement notes
      ScoreLine("COMPLETENESS_SCORE", "7", "4") \o ScoreLine("ACCURACY_SCORE", "7", "5")
        \o <<"MISSING_INFO", ":", " ", "w", "\n", "w", "w", "\n",
             "IMPROVEMENTS", ":", " ", "w">>,
      \* 40 / 40 with one missing aspect and no improvement notes
      ScoreLine("COMPLETENESS_SCORE", "4", "0") \o ScoreLine("ACCURACY_SCORE", "4", "0")
        \o <<"MISSING_INFO", ":", " ", "w">>,
      \* no marker at all
      <<"w", " ", "w">> }

\* The plan texts the orchestration specification draws from.
ItemLine(n) == <<n, ".", " ", "elevenchars", " ", n>>
PlanTexts ==
    { \* no item line: the default angles
      <<"w", " ", "w">>,
      \* one item
      ItemLine("1"),
      \* three items, the second one too short to count
      ItemLine("1") \o <<"\n", "-", " ", "w", "\n">> \o ItemLine("2")
        \o <<"\n">> \o ItemLine("3") }

-----------------------------------------------------------------------------
(* ResearchCrew.conduct_research *)

Init ==
    /\ pc = "planning"
    /\ enable_quality_control \in BOOLEAN
    /\ num_sub_researchers \in 1..MaxResearchers
    /\ iteration = 0
    /\ findings = <<>>
    /\ units = <<>>
    /\ angles = <<>>
    /\ pool = {}
    /\ collected = {}
    /\ poolFindings = <<>>
    /\ text = <<>>
    /\ report = NoReport
    /\ rounds = 0
    /\ gateAt = <<>>
    /\ result = NoResult
    /\ plan \in PlanTexts
    /\ progress_callback \in BOOLEAN
    /\ sources = <<>>
    /\ unique_sources = <<>>
    /\ kwargs = <<>>
    /\ cancel_requested = FALSE
    /\ ToolsUnused

\* lines 56-99 and 255-260: plan, cut to num_sub_researchers, submit the pool
Plan ==
    /\ pc = "planning"
    /\ Submit(Take(parse_research_angles(plan), num_sub_researchers))
    /\ pc' = "pool"
    /\ UNCHANGED <<enable_quality_control, num_sub_researchers, iteration,
                    findings, text, report, gateAt, result, plan,
                    progress_callback, sources, unique_sources, kwargs,
                    cancel_requested, toolVars>>

\* a worker thread takes up the unit
UnitStart(u) ==
    /\ units[u] = "submitted"
    /\ units' = [units EXCEPT ![u] = "running"]
    /\ UNCHANGED <<pc, enable_quality_control, num_sub_researchers,
                    iteration, findings, angles, pool, collected,
                    poolFindings, text, report, rounds, gateAt, result, plan,
                    progress_callback, sources, unique_sources, kwargs,
                    cancel_requested, toolVars>>

\* researcher.conduct_research returns, raises, or never comes back
UnitFinish(u) ==
    /\ units[u] = "running"
    /\ \E outcome \in {"returned", "raised", "hung"} :
           units' = [units EXCEPT ![u] = outcome]
    /\ UNCHANGED <<pc, enable_quality_control, num_sub_researchers,
                    iteration, findings, angles, pool, collected,
                    poolFindings, text, report, rounds, gateAt, result, plan,
                    progress_callback, sources, unique_sources, kwargs,
                    cancel_requested, toolVars>>

\* the exceptions a call of progress_callback can raise: none without one
CallbackErrors == IF progress_callback THEN {"progress_callback"} ELSE {}

\* an exception no handler catches leaves conduct_research
Raise(e) ==
    /\ pc' = "raised"
    /\ result' = [raised |-> e]
    /\ UNCHANGED <<enable_quality_control, num_sub_researchers, iteration,
                    findings, units, angles, pool, collected, poolFindings,
                    text, report, rounds, gateAt, plan, progress_callback,
                    sources, unique_sources, kwargs, cancel_requested,
                    toolVars>>

\* lines 53-97: progress_callback (54, 88, 97) or research_db.create_session
\* (59) raises before the initial pool
PlanRaises ==
    /\ pc = "planning"
    /\ \E e \in {"create_session"} \cup CallbackErrors : Raise(e)

\* a mutant: the exception of a unit is not caught
CollectInitialUncaught(u) ==
    /\ pc = "pool"
    /\ u \in pool \ collected
    /\ Done(u)
    /\ IF units[u] = "raised"
       THEN /\ Raise("conduct_research")
       ELSE /\ \E e \in {"none", "save_finding"} \cup CallbackErrors :
                   poolFindings' =
                       IF e = "none" THEN Append(poolFindings, Result(u))
                       ELSE Append(Append(poolFindings, Result(u)),
                                   ErrorFinding(u, e))
            /\ collected' = collected \cup {u}
            /\ UNCHANGED <<pc, enable_quality_control, num_sub_researchers,
                            iteration, findings, units, angles, pool, text,
                            report, rounds, gateAt, result, plan,
                            progress_callback, sources, unique_sources,
                            kwargs, cancel_requested, toolVars>>

\* _conduct_parallel_research, lines 264-294: one turn of the as_completed
\* loop; a unit's exception, or one of save_finding or progress_callback
\* after the result was appended, is caught and an error finding appended
CollectInitial(u) ==
    /\ pc = "pool"
    /\ u \in pool \ collected
    /\ Done(u)
    /\ \E e \in {"none", "save_finding"} \cup CallbackErrors :
           poolFindings' =
               IF units[u] = "raised"
               THEN Append(poolFindings, ErrorFinding(u, "conduct_research"))
               ELSE IF e = "none" THEN Append(poolFindings, Result(u))
               ELSE Append(Append(poolFindings, Result(u)), ErrorFinding(u, e))
    /\ collected' = collected \cup {u}
    /\ UNCHANGED <<pc, enable_quality_control, num_sub_researchers,
                    iteration, findings, units, angles, pool, text, report,
                    rounds, gateAt, result, plan, progress_callback, sources,
                    unique_sources, kwargs, cancel_requested, toolVars>>

\* _conduct_targeted_research, lines 343-367: one turn of the as_completed loop
CollectTargeted(u) ==
    /\ pc = "targeted"
    /\ u \in pool \ collected
    /\ Done(u)
    /\ poolFindings' =
           IF units[u] = "raised" THEN poolFindings
           ELSE Append(poolFindings, Result(u))
    /\ collected' = collected \cup {u}
    /\ UNCHANGED <<pc, enable_quality_control, num_sub_researchers,
                    iteration, findings, units, angles, pool, text, report,
                    rounds, gateAt, result, plan, progress_callback, sources,
                    unique_sources, kwargs, cancel_requested, toolVars>>

\* a mutant: the pool returns on the first handled future
PoolJoinedOnFirst == collected # {}
\* the as_completed loop and the executor's `with` block end
PoolJoined == collected = pool

\* lines 99-104: the initial pool returns
InitialReturn ==
    /\ pc = "pool"
    /\ PoolJoined
    /\ findings' = poolFindings
    /\ iteration' = 1
    /\ pc' = "loop"
    /\ UNCHANGED <<enable_quality_control, num_sub_researchers, units,
                    angles, pool, collected, poolFindings, text, report,
                    rounds, gateAt, result, plan, progress_callback, sources,
                    unique_sources, kwargs, cancel_requested, toolVars>>

\* lines 106-121: the Quality Gate is consulted
Evaluate ==
    /\ pc = "loop"
    /\ iteration <= max_iterations
    /\ enable_quality_control
    /\ \E txt \in JudgeTexts :
           /\ text' = txt
           /\ report' = evaluate_findings(txt)
    /\ gateAt' = Append(gateAt, [rounds |-> rounds, seen |-> Len(findings)])
    /\ pc' = "decide"
    /\ UNCHANGED <<enable_quality_control, num_sub_researchers, iteration,
                    findings, units, angles, pool, collected, poolFindings,
                    rounds, result, plan, progress_callback, sources,
                    unique_sources, kwargs, cancel_requested, toolVars>>

\* a mutant: without quality control the fact-checking still runs
SkipQualityControlFactChecking ==
    /\ pc = "loop"
    /\ iteration <= max_iterations
    /\ ~enable_quality_control
    /\ pc' = "factcheck"
    /\ UNCHANGED <<enable_quality_control, num_sub_researchers, iteration,
                    findings, units, angles, pool, collected, poolFindings,
                    text, report, rounds, gateAt, result, plan,
                    progress_callback, sources, unique_sources, kwargs,
                    cancel_requested, toolVars>>

\* lines 174-179: no quality control: leave the loop, and the fact-checking
\* (line 179) is skipped
SkipQualityControl ==
    /\ pc = "loop"
    /\ iteration <= max_iterations
    /\ ~enable_quality_control
    /\ pc' = "synthesize"
    /\ UNCHANGED <<enable_quality_control, num_sub_researchers, iteration,
                    findings, units, angles, pool, collected, poolFindings,
                    text, report, rounds, gateAt, result, plan,
                    progress_callback, sources, unique_sources, kwargs,
                    cancel_requested, toolVars>>

\* lines 123-131: threshold met, break
DecideFinalize ==
    /\ pc = "decide"
    /\ MeetsThreshold(report)
    /\ pc' = "factcheck"
    /\ UNCHANGED <<enable_quality_control, num_sub_researchers, iteration,
                    findings, units, angles, pool, collected, poolFindings,
                    text, report, rounds, gateAt, result, plan,
                    progress_callback, sources, unique_sources, kwargs,
                    cancel_requested, toolVars>>

\* lines 133-159 and 307-341: a targeted pool is submitted
DecideTargeted ==
    /\ pc = "decide"
    /\ ~MeetsThreshold(report)
    /\ MayIterate(iteration)
    /\ targeted_angles(MissingAspects(report), Improvements(report)) # <<>>
    /\ Submit(targeted_angles(MissingAspects(report), Improvements(report)))
    /\ pc' = "targeted"
    /\ UNCHANGED <<enable_quality_control, num_sub_researchers, iteration,
                    findings, text, report, gateAt, result, plan,
                    progress_callback, sources, unique_sources, kwargs,
                    cancel_requested, toolVars>>

\* lines 133-164 and 318-319: nothing to target, [] is merged
DecideNoTargets ==
    /\ pc = "decide"
    /\ ~MeetsThreshold(report)
    /\ MayIterate(iteration)
    /\ targeted_angles(MissingAspects(report), Improvements(report)) = <<>>
    /\ iteration' = iteration + 1
    /\ pc' = "loop"
    /\ UNCHANGED <<enable_quality_control, num_sub_researchers, findings,
                    units, angles, pool, collected, poolFindings, text,
                    report, rounds, gateAt, result, plan, progress_callback,
                    sources, unique_sources, kwargs, cancel_requested,
                    toolVars>>

\* lines 165-173: maximum iterations reached, break
DecideMaxReached ==
    /\ pc = "decide"
    /\ ~MeetsThreshold(report)
    /\ ~MayIterate(iteration)
    /\ pc' = "factcheck"
    /\ UNCHANGED <<enable_quality_control, num_sub_researchers, iteration,
                    findings, units, angles, pool, collected, poolFindings,
                    text, report, rounds, gateAt, result, plan,
                    progress_callback, sources, unique_sources, kwargs,
                    cancel_requested, toolVars>>

\* a mutant: the targeted findings replace the accumulated ones
MergeReplacing(acc, new) == new
\* line 162: findings.extend(targeted_findings)
Merge(acc, new) == acc \o new

\* lines 153-164: the targeted pool returns and its findings are merged
TargetedReturn ==
    /\ pc = "targeted"
    /\ PoolJoined
    /\ findings' = Merge(findings, poolFindings)
    /\ iteration' = iteration + 1
    /\ pc' = "loop"
    /\ UNCHANGED <<enable_quality_control, num_sub_researchers, units,
                    angles, pool, collected, poolFindings, text, report,
                    rounds, gateAt, result, plan, progress_callback, sources,
                    unique_sources, kwargs, cancel_requested, toolVars>>

\* lines 149-150: progress_callback raises before the targeted research
TargetedCallbackRaises ==
    /\ pc = "decide"
    /\ ~MeetsThreshold(report)
    /\ MayIterate(iteration)
    /\ \E e \in CallbackErrors : Raise(e)

\* lines 180-181: progress_callback raises before the fact-checking
FactCheckCallbackRaises ==
    /\ pc = "factcheck"
    /\ \E e \in CallbackErrors : Raise(e)

\* lines 178-204: fact-checking, its report appended to the findings
FactCheck ==
    /\ pc = "factcheck"
    /\ findings' = Append(findings, FactCheckFinding)
    /\ pc' = "synthesize"
    /\ UNCHANGED <<enable_quality_control, num_sub_researchers, iteration,
                    units, angles, pool, collected, poolFindings, text,
                    report, rounds, gateAt, result, plan, progress_callback,
                    sources, unique_sources, kwargs, cancel_requested,
                    toolVars>>

\* lines 207-242: progress_callback (208, 214, 242) or
\* research_db.complete_session (230) raises
CompileRaises ==
    /\ pc = "synthesize"
    /\ \E e \in {"complete_session"} \cup CallbackErrors : Raise(e)

\* _compile_results, lines 394-409, and line 239: the report
compile_results(fs) ==
    [query |-> "query",
     timestamp |-> "start_time",
     duration_seconds |-> "duration",
     research_plan |-> plan,
     research_angles |-> parse_research_angles(plan),
     findings |-> fs,
     synthesis |-> "synthesis",
     statistics |-> [num_researchers |-> Cardinality({u \in DOMAIN units : u[1] = 1}) + 1],
     session_id |-> "session_id"]

\* lines 206-244 and _compile_results: the report is built and returned
Compile ==
    /\ pc = "synthesize"
    /\ result' = compile_results(findings)
    /\ pc' = "done"
    /\ UNCHANGED <<enable_quality_control, num_sub_researchers, iteration,
                    findings, units, angles, pool, collected, poolFindings,
                    text, report, rounds, gateAt, plan, progress_callback,
                    sources, unique_sources, kwargs, cancel_requested,
                    toolVars>>

Next ==
    \/ Plan
    \/ PlanRaises
    \/ \E u \in DOMAIN units : UnitStart(u)
    \/ \E u \in DOMAIN units : UnitFinish(u)
    \/ \E u \in DOMAIN units : CollectInitial(u)
    \/ \E u \in DOMAIN units : CollectTargeted(u)
    \/ InitialReturn
    \/ Evaluate
    \/ SkipQualityControl
    \/ DecideFinalize
    \/ DecideTargeted
    \/ DecideNoTargets
    \/ DecideMaxReached
    \/ TargetedReturn
    \/ TargetedCallbackRaises
    \/ FactCheckCallbackRaises
    \/ FactCheck
    \/ CompileRaises
    \/ Compile

Spec == Init /\ [][Next]_vars

-----------------------------------------------------------------------------
(* The parser on its own: evaluate_findings applied to every judgment text  *)
(* of at most MaxTextLen tokens.                                            *)

ParseAlphabet == {"COMPLETENESS_SCORE", "ACCURACY_SCORE", "MISSING_INFO",
                  ":", "8", ".", "w", "\n"}
ParseTexts == UNION {[1..n -> ParseAlphabet] : n \in 0..MaxTextLen}

InitParse ==
    /\ pc = "judged"
    /\ text \in ParseTexts
    /\ report = NoReport
    /\ enable_quality_control = TRUE
    /\ num_sub_researchers = 1
    /\ iteration = 0
    /\ findings = <<>>
    /\ units = <<>>
    /\ angles = <<>>
    /\ pool = {}
    /\ collected = {}
    /\ poolFindings = <<>>
    /\ rounds = 0
    /\ gateAt = <<>>
    /\ result = NoResult
    /\ plan = <<>>
    /\ progress_callback = FALSE
    /\ sources = <<>>
    /\ unique_sources = <<>>
    /\ kwargs = <<>>
    /\ cancel_requested = FALSE
    /\ ToolsUnused

\* evaluate_findings, lines 173-189, on the text the model returned
ParseJudgment ==
    /\ pc = "judged"
    /\ report' = evaluate_findings(text)
    /\ pc' = "parsed"
    /\ UNCHANGED <<enable_quality_control, num_sub_researchers, iteration,
                    findings, units, angles, pool, collected, poolFindings,
                    text, rounds, gateAt, result, plan, progress_callback,
                    sources, unique_sources, kwargs, cancel_requested,
                    toolVars>>

NextParse == ParseJudgment

SpecParse == InitParse /\ [][NextParse]_vars

-----------------------------------------------------------------------------
(* Planning on its own: the initial pool of conduct_research for every plan *)
(* text of at most MaxPlanLines lines and every crew size up to one more    *)
(* than the angle limit.                                                    *)

PlanLines ==
    { \* a numbered item
      <<"1", ".", " ", "elevenchars">>,
      \* an indented dash item
      <<" ", "-", "elevenchars", " ", "w">>,
      \* an item too short to count
      <<"2", ".", " ", "w", "w">>,
      \* a number that is no item marker
      <<"6", ".", " ", "elevenchars">> }
AllPlans ==
    UNION {{Join(ls, "\n") : ls \in [1..k -> PlanLines]} : k \in 0..MaxPlanLines}

InitPlan ==
    /\ pc = "planning"
    /\ plan \in AllPlans
    /\ num_sub_researchers \in 1..(AngleLimit + 1)
    /\ enable_quality_control = TRUE
    /\ progress_callback = FALSE
    /\ iteration = 0
    /\ findings = <<>>
    /\ units = <<>>
    /\ angles = <<>>
    /\ pool = {}
    /\ collected = {}
    /\ poolFindings = <<>>
    /\ text = <<>>
    /\ report = NoReport
    /\ rounds = 0
    /\ gateAt = <<>>
    /\ result = NoResult
    /\ sources = <<>>
    /\ unique_sources = <<>>
    /\ kwargs = <<>>
    /\ cancel_requested = FALSE
    /\ ToolsUnused

NextPlan == Plan

SpecPlan == InitPlan /\ [][NextPlan]_vars

-----------------------------------------------------------------------------
(* SubResearcher.conduct_research, lines 237-254: the sources of all the    *)
(* searches are deduplicated by URL.  A source is a dict that may lack its  *)
(* 'score' or its 'url'.                                                    *)

\* lines 244-247: the dict `unique_sources` as the list of its values, in
\* insertion order; a source replaces the one kept for its url only with a
\* strictly higher score, and keeps that one's place
RECURSIVE DedupFrom(_, _, _)
DedupFrom(all, i, unique) ==
    IF i > Len(all) THEN unique
    ELSE LET source == all[i]
             url == Get(source, "url", "")
             at == {k \in 1..Len(unique) : unique[k].url = url}
         IN IF url # "" /\ at = {}
            THEN DedupFrom(all, i + 1, Append(unique, source))
            ELSE IF url # "" /\ \E k \in at :
                        Get(source, "score", 0) > Get(unique[k], "score", 0)
            THEN DedupFrom(all, i + 1,
                     [k \in 1..Len(unique) |->
                         IF k \in at THEN source ELSE unique[k]])
            ELSE DedupFrom(all, i + 1, unique)
\* a mutant: the first source seen for a url is kept, whatever the scores
RECURSIVE DedupKeepingFirst(_, _, _)
DedupKeepingFirst(all, i, unique) ==
    IF i > Len(all) THEN unique
    ELSE LET url == Get(all[i], "url", "")
         IN IF url # "" /\ \A k \in 1..Len(unique) : unique[k].url # url
            THEN DedupKeepingFirst(all, i + 1, Append(unique, all[i]))
            ELSE DedupKeepingFirst(all, i + 1, unique)
dedup_sources_keeping_first(all) == DedupKeepingFirst(all, 1, <<>>)
\* a mutant: the loop starts at the second source
dedup_sources_skipping_first(all) == DedupFrom(all, 2, <<>>)
\* list(unique_sources.values())
dedup_sources(all) == DedupFrom(all, 1, <<>>)

\* the sources a search result list is drawn from
SourcePool ==
    {[url |-> u, score |-> sc, title |-> t] :
         u \in {"", "a", "b"}, sc \in 0..1, t \in {"t"}}
    \cup {[url |-> "a", title |-> "no score"], [title |-> "no url", score |-> 1]}
SourceLists == UNION {[1..n -> SourcePool] : n \in 0..MaxSources}

InitDedup ==
    /\ pc = "collected"
    /\ sources \in SourceLists
    /\ unique_sources = <<>>
    /\ kwargs = <<>>
    /\ cancel_requested = FALSE
    /\ ToolsUnused
    /\ plan = <<>>
    /\ num_sub_researchers = 1
    /\ enable_quality_control = TRUE
    /\ progress_callback = FALSE
    /\ iteration = 0
    /\ findings = <<>>
    /\ units = <<>>
    /\ angles = <<>>
    /\ pool = {}
    /\ collected = {}
    /\ poolFindings = <<>>
    /\ text = <<>>
    /\ report = NoReport
    /\ rounds = 0
    /\ gateAt = <<>>
    /\ result = NoResult

\* lines 243-247 on the collected sources
Deduplicate ==
    /\ pc = "collected"
    /\ unique_sources' = dedup_sources(sources)
    /\ pc' = "deduped"
    /\ UNCHANGED <<enable_quality_control, num_sub_researchers, iteration,
                    findings, units, angles, pool, collected, poolFindings,
                    text, report, rounds, gateAt, result, plan,
                    progress_callback, sources, kwargs, cancel_requested,
                    toolVars>>

\* lines 243-247 once more, on the list the first pass returned
DeduplicateAgain ==
    /\ pc = "deduped"
    /\ unique_sources' = dedup_sources(unique_sources)
    /\ pc' = "deduped_again"
    /\ UNCHANGED <<enable_quality_control, num_sub_researchers, iteration,
                    findings, units, angles, pool, collected, poolFindings,
                    text, report, rounds, gateAt, result, plan,
                    progress_callback, sources, kwargs, cancel_requested,
                    toolVars>>

NextDedup == Deduplicate \/ DeduplicateAgain

SpecDedup == InitDedup /\ [][NextDedup]_vars

-----------------------------------------------------------------------------
(* The caller of the crew: it constructs a ResearchCrew from keyword        *)
(* arguments, runs conduct_research, and may ask, while a pool is running,  *)
(* for the run to be cancelled.                                             *)

\* ResearchCrew.__init__, line 20: the keyword parameters it accepts
Parameters == {"num_sub_researchers", "debug", "enable_quality_control"}

\* the keyword arguments the callers pass: test_research.py, lines 25-28
\* (num_sub_researchers and max_iterations = 2), and the same with
\* enable_quality_control given or left out
KwargSets ==
    { ("num_sub_researchers" :> n) @@ q @@ m :
        n \in 1..MaxResearchers,
        q \in {<<>>, "enable_quality_control" :> TRUE,
                     "enable_quality_control" :> FALSE},
        m \in {<<>>, "max_iterations" :> 2} }

InitCaller ==
    /\ pc = "constructing"
    /\ kwargs \in KwargSets
    /\ cancel_requested = FALSE
    /\ enable_quality_control = TRUE
    /\ num_sub_researchers = default_sub_researchers
    /\ iteration = 0
    /\ findings = <<>>
    /\ units = <<>>
    /\ angles = <<>>
    /\ pool = {}
    /\ collected = {}
    /\ poolFindings = <<>>
    /\ text = <<>>
    /\ report = NoReport
    /\ rounds = 0
    /\ gateAt = <<>>
    /\ result = NoResult
    /\ plan \in PlanTexts
    /\ progress_callback \in BOOLEAN
    /\ sources = <<>>
    /\ unique_sources = <<>>
    /\ ToolsUnused

\* ResearchCrew.__init__, lines 20-29: a keyword that is not a parameter is a
\* TypeError and no crew is built; otherwise the crew takes its size
\* (num_sub_researchers or the configured default) and its quality-control
\* switch (default True) from the arguments.  Nothing is taken for the
\* iteration cap, which conduct_research sets itself (line 103).
Construct ==
    /\ pc = "constructing"
    /\ IF DOMAIN kwargs \subseteq Parameters
       THEN /\ pc' = "planning"
            /\ num_sub_researchers' =
                 IF /\ "num_sub_researchers" \in DOMAIN kwargs
                    /\ kwargs["num_sub_researchers"] # 0
                 THEN kwargs["num_sub_researchers"]
                 ELSE default_sub_researchers
            /\ enable_quality_control' =
                 IF "enable_quality_control" \in DOMAIN kwargs
                 THEN kwargs["enable_quality_control"]
                 ELSE TRUE
            /\ UNCHANGED result
       ELSE /\ pc' = "raised"
            /\ result' = [raised |-> "TypeError"]
            /\ UNCHANGED <<num_sub_researchers, enable_quality_control>>
    /\ UNCHANGED <<iteration, findings, units, angles, pool, collected,
                   poolFindings, text, report, rounds, gateAt, plan,
                   progress_callback, sources, unique_sources, kwargs,
                   cancel_requested, toolVars>>

\* the caller asks for cancellation while a pool is running.
\* conduct_research (lines 35-39) takes the query and the progress callback
\* only, and nothing in lines 106-176 reads a request: the request changes
\* no state of the crew.
RequestCancel ==
    /\ pc \in {"pool", "targeted"}
    /\ ~cancel_requested
    /\ cancel_requested' = TRUE
    /\ UNCHANGED <<pc, enable_quality_control, num_sub_researchers, iteration,
                   findings, units, angles, pool, collected, poolFindings,
                   text, report, rounds, gateAt, result, plan,
                   progress_callback, sources, unique_sources, kwargs,
                   toolVars>>

NextCaller == Construct \/ RequestCancel \/ Next
SpecCaller == InitCaller /\ [][NextCaller]_vars

-----------------------------------------------------------------------------
(* RateLimiter (src/rate_limiter.py) called from several threads.  Time is  *)
(* counted in whole seconds; threading.Lock is a field holding its owner.   *)

\* no crew is running
CrewUnused ==
    /\ sources = <<>>
    /\ unique_sources = <<>>
    /\ kwargs = <<>>
    /\ cancel_requested = FALSE
    /\ plan = <<>>
    /\ num_sub_researchers = 1
    /\ enable_quality_control = TRUE
    /\ progress_callback = FALSE
    /\ iteration = 0
    /\ findings = <<>>
    /\ units = <<>>
    /\ angles = <<>>
    /\ pool = {}
    /\ collected = {}
    /\ poolFindings = <<>>
    /\ text = <<>>
    /\ report = NoReport
    /\ rounds = 0
    /\ gateAt = <<>>
    /\ result = NoResult

LimiterThreads == 1..MaxLimiterThreads
LimiterKeys == {"k1", "k2"}

IdleThread == [pc |-> "idle", key |-> "k1", waiting |-> FALSE, current_time |-> 0]

InitLimiter ==
    /\ pc = "limiter"
    /\ now = 0
    /\ threads = [t \in LimiterThreads |-> IdleThread]
    /\ rate_limiter = [calls |-> [k \in LimiterKeys |-> <<>>],
                       lock |-> 0,
                       \* for each timestamp, how many calls given it
                       \* have returned True
                       admitted |-> [k \in LimiterKeys |->
                                       [time \in 0..MaxTime |-> 0]]]
    /\ thought_logger = Unused
    /\ search_tool = Unused
    /\ sub_researcher = Unused
    /\ bedrock = Unused
    /\ CrewUnused

\* all that a step of the limiter leaves alone
LimiterFrame ==
    UNCHANGED <<crewVars, thought_logger, search_tool, sub_researcher, bedrock>>

\* the clock advances
Tick ==
    /\ now < MaxTime
    /\ now' = now + 1
    /\ UNCHANGED <<threads, rate_limiter>>
    /\ LimiterFrame

\* a thread calls check_rate_limit(key, max_calls, window_seconds) (line 14)
\* or wait_if_needed with the same arguments (line 42)
CallLimiter(t, key, waiting) ==
    /\ threads[t].pc = "idle"
    /\ threads' = [threads EXCEPT ![t] = [@ EXCEPT !.pc = "line26", !.key = key,
                                                   !.waiting = waiting]]
    /\ UNCHANGED <<now, rate_limiter>>
    /\ LimiterFrame

\* line 26: current_time = time.time(), before the lock is taken
ReadTime(t) ==
    /\ threads[t].pc = "line26"
    /\ threads' = [threads EXCEPT ![t] = [@ EXCEPT !.pc = "line28",
                                                   !.current_time = now]]
    /\ UNCHANGED <<now, rate_limiter>>
    /\ LimiterFrame

\* lines 30-33: the calls of the key that are less than a window older than
\* current_time
Recent(call_times, current_time) ==
    SelectSeq(call_times, LAMBDA call_time :
                              current_time - call_time < window_seconds)

\* lines 28-40, with the lock held from first to last: prune, then admit and
\* record if under the limit.  Back in wait_if_needed (line 51) a refused
\* call goes on to line 53, an admitted one returns.
CheckLocked(t) ==
    LET key == threads[t].key
        current_time == threads[t].current_time
        kept == Recent(rate_limiter.calls[key], current_time)
        admit == Len(kept) < max_calls
    IN  /\ threads[t].pc = "line28"
        /\ rate_limiter.lock = 0
        /\ rate_limiter' =
             [rate_limiter EXCEPT
                !.calls[key] = IF admit THEN Append(kept, current_time) ELSE kept,
                !.admitted[key][current_time] = IF admit THEN @ + 1 ELSE @]
        /\ threads' = [threads EXCEPT ![t] =
                          IF threads[t].waiting /\ ~admit
                          THEN [@ EXCEPT !.pc = "line53"]
                          ELSE IdleThread]
        /\ UNCHANGED now
        /\ LimiterFrame

\* min(self.calls[key])
Oldest(call_times) ==
    CHOOSE m \in Range(call_times) : \A c \in Range(call_times) : m <= c

\* lines 53-60: wait_if_needed takes the lock and sleeps while holding it
Sleep(t) ==
    /\ threads[t].pc = "line53"
    /\ rate_limiter.lock = 0
    /\ rate_limiter' = [rate_limiter EXCEPT !.lock = t]
    /\ threads' = [threads EXCEPT ![t].pc = "sleeping"]
    /\ UNCHANGED now
    /\ LimiterFrame

\* lines 54-60: the sleep is over once the oldest call of the key is a window
\* old (wait_time = window_seconds - (time.time() - oldest_call) + 0.1; the
\* 0.1 s are below the clock's resolution), or at once for a wait_time that
\* is not positive; the lock is released and line 51 calls check_rate_limit
\* again
Wake(t) ==
    LET call_times == rate_limiter.calls[threads[t].key] IN
    /\ threads[t].pc = "sleeping"
    /\ call_times # <<>> => now >= Oldest(call_times) + window_seconds
    /\ rate_limiter' = [rate_limiter EXCEPT !.lock = 0]
    /\ threads' = [threads EXCEPT ![t].pc = "line26"]
    /\ UNCHANGED now
    /\ LimiterFrame

NextLimiter ==
    \/ Tick
    \/ \E t \in LimiterThreads, key \in LimiterKeys, waiting \in BOOLEAN :
          CallLimiter(t, key, waiting)
    \/ \E t \in LimiterThreads : ReadTime(t)
    \/ \E t \in LimiterThreads : CheckLocked(t)
    \/ \E t \in LimiterThreads : Sleep(t)
    \/ \E t \in LimiterThreads : Wake(t)
SpecLimiter == InitLimiter /\ [][NextLimiter]_vars

-----------------------------------------------------------------------------
(* ThoughtLogger (src/thought_logger.py): agents log thoughts, the          *)
(* background thread _process_thoughts handles them, and the UI starts new  *)
(* sessions (ui/gradio_app.py, line 404).  A thought carries the number of  *)
(* the session it was logged in: the number of start_new_session calls      *)
(* made before it was enqueued.  A session id is the second it was taken    *)
(* in, and names the log file.                                              *)

InitLogger ==
    /\ pc = "logger"
    /\ now = 0
    /\ threads = [processor |-> [pc |-> "line65", thought |-> <<>>],
                  ui |-> [pc |-> "idle"]]
    /\ thought_logger =
         [thoughts |-> <<>>,
          processing |-> TRUE,
          thought_queue |-> <<>>,
          session_id |-> 0,
          log_file |-> 0,
          \* the log files on disk, by the session id in their name
          files |-> [id \in 0..MaxTime |-> <<>>],
          \* the calls of start_new_session and of log_thought so far
          sessions |-> 0,
          logged |-> 0]
    /\ rate_limiter = Unused
    /\ search_tool = Unused
    /\ sub_researcher = Unused
    /\ bedrock = Unused
    /\ CrewUnused

\* all that a step of the logger leaves alone
LoggerFrame ==
    UNCHANGED <<crewVars, now, rate_limiter, search_tool, sub_researcher,
                bedrock>>

\* log_thought, lines 51-61: an agent's thought is put on the queue
LogThought ==
    /\ thought_logger.logged < MaxThoughts
    /\ thought_logger' =
         [thought_logger EXCEPT
            !.thought_queue = Append(@, [agent_id |-> "agent",
                                         session |-> thought_logger.sessions]),
            !.logged = @ + 1]
    /\ UNCHANGED threads
    /\ LoggerFrame

\* _process_thoughts, line 65: `while self.processing`
LoopTest ==
    /\ threads.processor.pc = "line65"
    /\ threads' = [threads EXCEPT !.processor.pc =
                      IF thought_logger.processing THEN "line67" ELSE "stopped"]
    /\ UNCHANGED thought_logger
    /\ LoggerFrame

\* lines 67 and 82-83: the queue stays empty for the 0.1 s of the get, and
\* the loop goes round
QueueEmpty ==
    /\ threads.processor.pc = "line67"
    /\ thought_logger.thought_queue = <<>>
    /\ threads' = [threads EXCEPT !.processor.pc = "line65"]
    /\ UNCHANGED thought_logger
    /\ LoggerFrame

\* line 67: the next thought is taken off the queue
GetThought ==
    /\ threads.processor.pc = "line67"
    /\ thought_logger.thought_queue # <<>>
    /\ threads' = [threads EXCEPT !.processor =
                      [pc |-> "line68", thought |-> Head(thought_logger.thought_queue)]]
    /\ thought_logger' = [thought_logger EXCEPT !.thought_queue = Tail(@)]
    /\ LoggerFrame

\* line 68: self.thoughts.append(thought)
AppendThought ==
    /\ threads.processor.pc = "line68"
    /\ thought_logger' = [thought_logger EXCEPT
                             !.thoughts = Append(@, threads.processor.thought)]
    /\ threads' = [threads EXCEPT !.processor.pc = "line72"]
    /\ LoggerFrame

\* lines 71-73: the thought is appended to the file self.log_file names now
\* (log_to_file is True, the default); lines 76-80 have no subscriber to
\* notify
WriteThought ==
    /\ threads.processor.pc = "line72"
    /\ thought_logger' = [thought_logger EXCEPT
                             !.files[thought_logger.log_file] =
                                 Append(@, threads.processor.thought)]
    /\ threads' = [threads EXCEPT !.processor = [pc |-> "line65", thought |-> <<>>]]
    /\ LoggerFrame

\* clear, lines 150-152: the thoughts list is emptied, by whichever thread
\* calls it
Clear ==
    /\ thought_logger' = [thought_logger EXCEPT !.thoughts = <<>>]
    /\ UNCHANGED threads
    /\ LoggerFrame

\* stop, lines 180-183: processing is set to False; the caller then waits in
\* join for the processor thread to leave its loop
Stop ==
    /\ thought_logger.processing
    /\ thought_logger' = [thought_logger EXCEPT !.processing = FALSE]
    /\ UNCHANGED threads
    /\ LoggerFrame

\* start_new_session is called, and line 157 clears the thoughts
ClearThoughts ==
    /\ threads.ui.pc = "idle"
    /\ thought_logger.sessions < MaxSessions
    /\ thought_logger' = [thought_logger EXCEPT !.thoughts = <<>>,
                                                !.sessions = @ + 1]
    /\ threads' = [threads EXCEPT !.ui.pc = "line160"]
    /\ LoggerFrame

\* line 160: the new session id, datetime.now() to the second
NewSessionId ==
    /\ threads.ui.pc = "line160"
    /\ thought_logger' = [thought_logger EXCEPT !.session_id = now]
    /\ threads' = [threads EXCEPT !.ui.pc = "line164"]
    /\ LoggerFrame

\* lines 163-164: the log file of the new session id
NewLogFile ==
    /\ threads.ui.pc = "line164"
    /\ thought_logger' = [thought_logger EXCEPT
                             !.log_file = thought_logger.session_id]
    /\ threads' = [threads EXCEPT !.ui.pc = "line178"]
    /\ LoggerFrame

\* lines 167-178: the session-change thought is put on the queue, and
\* start_new_session returns
PutSessionChange ==
    /\ threads.ui.pc = "line178"
    /\ thought_logger' =
         [thought_logger EXCEPT
            !.thought_queue = Append(@, [agent_id |-> "system",
                                         session |-> thought_logger.sessions])]
    /\ threads' = [threads EXCEPT !.ui.pc = "idle"]
    /\ LoggerFrame

NextLogger ==
    \/ Tick
    \/ LogThought
    \/ LoopTest
    \/ QueueEmpty
    \/ GetThought
    \/ AppendThought
    \/ WriteThought
    \/ Clear
    \/ Stop
    \/ ClearThoughts
    \/ NewSessionId
    \/ NewLogFile
    \/ PutSessionChange
SpecLogger == InitLogger /\ [][NextLogger]_vars

-----------------------------------------------------------------------------
(* TavilySearchTool.search and its SearchCache (tools/search_tool.py).      *)
(* Every SubResearcher builds a tool of its own (sub_researcher.py lines    *)
(* 19-20); all the tools' caches are the one sqlite file                    *)
(* data/cache/search_cache.db.  A search that misses the cache waits in the *)
(* API call, and other tools' searches run meanwhile.  Time is counted in   *)
(* hours.                                                                   *)

SearchTools == {"A", "B"}
SearchQueries == {"q1", "q2"}

\* the 'results' of a response: raw results, which may lack fields, and may
\* hold a value json.dumps cannot store (bytes)
RawResults == { <<>>,
                <<[url |-> "u"], [title |-> "t", url |-> "v", score |-> 1]>>,
                <<[url |-> "u", content |-> "bytes"]>> }

\* what self.client.search does: it raises, or it returns a response without
\* 'results', with 'results' None, or with a list of raw results
ApiResponses ==
    {[kind |-> "raises"], [kind |-> "no results key"], [kind |-> "None"]}
        \cup {[kind |-> "list", results |-> r] : r \in RawResults}

\* lines 152-161: a raw result with the defaults filled in
ProcessResult(raw) ==
    [title |-> Get(raw, "title", ""),
     url |-> Get(raw, "url", ""),
     content |-> Get(raw, "content", ""),
     score |-> Get(raw, "score", 0),
     published_date |-> Get(raw, "publishedDate", ""),
     domain |-> <<"domain", Get(raw, "url", "")>>]

\* line 59: json.dumps(results) raises on bytes
Storable(results) == \A i \in 1..Len(results) : results[i].content # "bytes"

\* no row in the cache; None from SearchCache.get
NoEntry == [found |-> FALSE]

\* line 168: every tenth search of a tool clears the expired rows
PeriodicClear == 10

\* Tool B is new.  Tool A is new, or has made searches before: with
\* use_cache False, answered by the API with no results, which leave the
\* cache file as it was and the tool with its search_count.
InitSearch ==
    /\ pc = "search"
    /\ now = 0
    /\ \E earlier \in {[A |-> n, B |-> 0] : n \in {0, PeriodicClear - MaxSearchCalls}} :
         search_tool =
           [cache |-> [q \in SearchQueries |-> NoEntry],
            tools |-> [tool \in SearchTools |->
                         [search_count |-> earlier[tool],
                          cache_hits |-> 0,
                          \* where the tool's search is, its arguments and
                          \* locals, and what the last search returned or
                          \* raised
                          pc |-> "idle",
                          query |-> "q1",
                          use_cache |-> earlier[tool] = 0,
                          results |-> <<>>,
                          ret |-> IF earlier[tool] = 0
                                  THEN [none |-> TRUE]
                                  ELSE [results |-> <<>>,
                                        from_cache |-> FALSE,
                                        search_count |-> earlier[tool],
                                        cache_hits |-> 0,
                                        query |-> "q1",
                                        search_depth |-> "search_depth"],
                          \* the calls of search since
                          calls |-> 0]],
            \* the calls of self.client.search so far, and for each query
            \* the hour of the row that a search with caching stored and
            \* returned the results of
            api_calls |-> earlier["A"] + earlier["B"],
            succeeded |-> [q \in SearchQueries |-> -1]]
    /\ threads = Unused
    /\ rate_limiter = Unused
    /\ thought_logger = Unused
    /\ sub_researcher = Unused
    /\ bedrock = Unused
    /\ CrewUnused

\* SearchCache.get, lines 34-47: the results of the row whose expires_at is
\* later than now, or None
CacheGet(query) ==
    LET row == search_tool.cache[query] IN
    IF row.found /\ row.expires_at > now
    THEN [found |-> TRUE, results |-> row.results]
    ELSE NoEntry

\* `if cached_results:` (line 113): None and the empty list are both false
Truthy(cached_results) ==
    cached_results.found /\ cached_results.results # <<>>

\* search(query, use_cache=...), lines 110-135: the cache is asked; a hit
\* returns, a miss goes on to the API call.  The cache file may be locked
\* by another connection: SearchCache.get then raises, outside the try of
\* line 136, and so does search.
SearchBegin(tool, query, use_cache, locked) ==
    LET t == search_tool.tools[tool]
        called == [t EXCEPT !.calls = @ + 1, !.query = query,
                            !.use_cache = use_cache]
        cached_results == CacheGet(query)
    IN
    /\ t.pc = "idle"
    /\ t.calls < MaxSearchCalls
    /\ search_tool' = [search_tool EXCEPT !.tools[tool] =
         IF use_cache /\ locked
         THEN [called EXCEPT !.ret = [raised |-> "OperationalError"]]
         ELSE IF use_cache /\ Truthy(cached_results)
         THEN [called EXCEPT
                 !.cache_hits = @ + 1,
                 !.ret = [results |-> cached_results.results,
                          from_cache |-> TRUE,
                          search_count |-> t.search_count,
                          cache_hits |-> t.cache_hits + 1]]
         ELSE [called EXCEPT !.pc = "line137"]]
    /\ UNCHANGED <<crewVars, now, threads, rate_limiter, thought_logger,
                   sub_researcher, bedrock>>

\* lines 136-165 and the handler of line 180: the API call is over.  If it
\* raised, the handler returns the error.  Otherwise search_count grows
\* (line 145), the results are processed and stored (line 165); an
\* exception on the way (no list to go through, results that json.dumps
\* cannot store, a cache file locked during SearchCache.set) is caught by
\* the same handler, after search_count has grown and with nothing stored.
\* A tenth search goes on to clear_expired, any other returns its results.
SearchFinish(tool, response, locked) ==
    LET t == search_tool.tools[tool]
        query == t.query
        count == t.search_count + 1
        raw == IF response.kind = "list" THEN response.results ELSE <<>>
        results == [i \in 1..Len(raw) |-> ProcessResult(raw[i])]
        error == IF response.kind = "None" THEN "TypeError"
                 ELSE IF t.use_cache /\ ~Storable(results) THEN "TypeError"
                 ELSE IF t.use_cache /\ locked THEN "OperationalError"
                 ELSE "none"
        stored == IF t.use_cache
                  THEN [search_tool.cache EXCEPT ![query] =
                           [found |-> TRUE, results |-> results,
                            expires_at |-> now + ttl_hours]]
                  ELSE search_tool.cache
        \* what the handler of line 180 returns
        ErrorReturn(e, search_count) ==
            [results |-> <<>>, error |-> e, search_count |-> search_count,
             cache_hits |-> t.cache_hits, query |-> query]
    IN
    /\ t.pc = "line137"
    /\ search_tool' =
         IF response.kind = "raises"
         THEN [search_tool EXCEPT
                 !.api_calls = @ + 1,
                 !.tools[tool] = [t EXCEPT
                     !.pc = "idle",
                     !.ret = ErrorReturn("api error", t.search_count)]]
         ELSE IF error # "none"
         THEN [search_tool EXCEPT
                 !.api_calls = @ + 1,
                 !.tools[tool] = [t EXCEPT
                     !.pc = "idle",
                     !.search_count = count,
                     !.ret = ErrorReturn(error, count)]]
         ELSE IF count % PeriodicClear = 0
         THEN [search_tool EXCEPT
                 !.api_calls = @ + 1,
                 !.cache = stored,
                 !.tools[tool] = [t EXCEPT
                     !.pc = "line169",
                     !.search_count = count,
                     !.results = results]]
         ELSE [search_tool EXCEPT
                 !.api_calls = @ + 1,
                 !.cache = stored,
                 !.succeeded[query] = IF t.use_cache THEN now ELSE @,
                 !.tools[tool] = [t EXCEPT
                     !.pc = "idle",
                     !.search_count = count,
                     !.ret = [results |-> results,
                              from_cache |-> FALSE,
                              search_count |-> count,
                              cache_hits |-> t.cache_hits,
                              query |-> query,
                              search_depth |-> "search_depth"]]]
    /\ UNCHANGED <<crewVars, now, threads, rate_limiter, thought_logger,
                   sub_researcher, bedrock>>

\* lines 168-178 and the handler of line 180: the tenth search's
\* self.cache.clear_expired() (SearchCache.clear_expired, lines 63-67), a
\* transaction of its own, made whatever use_cache is.  It deletes the rows
\* whose expires_at is before now, and the search returns its results; with
\* the cache file locked it raises, and the handler returns the error,
\* search_count grown and the row of line 165 stored.
ClearExpired(tool, locked) ==
    LET t == search_tool.tools[tool]
        query == t.query
        cache == search_tool.cache
        row == cache[query]
    IN
    /\ t.pc = "line169"
    /\ search_tool' =
         IF locked
         THEN [search_tool EXCEPT
                 !.tools[tool] = [t EXCEPT
                     !.pc = "idle",
                     !.results = <<>>,
                     !.ret = [results |-> <<>>,
                              error |-> "OperationalError",
                              search_count |-> t.search_count,
                              cache_hits |-> t.cache_hits,
                              query |-> query]]]
         ELSE [search_tool EXCEPT
                 !.cache = [q \in SearchQueries |->
                              IF cache[q].found /\ cache[q].expires_at < now
                              THEN NoEntry ELSE cache[q]],
                 \* the row of this search, unless another search has
                 \* stored the query's row since
                 !.succeeded[query] =
                     IF t.use_cache /\ row.found /\ row.results = t.results
                     THEN row.expires_at - ttl_hours ELSE @,
                 !.tools[tool] = [t EXCEPT
                     !.pc = "idle",
                     !.results = <<>>,
                     !.ret = [results |-> t.results,
                              from_cache |-> FALSE,
                              search_count |-> t.search_count,
                              cache_hits |-> t.cache_hits,
                              query |-> query,
                              search_depth |-> "search_depth"]]]
    /\ UNCHANGED <<crewVars, now, threads, rate_limiter, thought_logger,
                   sub_researcher, bedrock>>

\* half a time-to-live passes
HoursPass ==
    /\ now <= ttl_hours
    /\ now' = now + ttl_hours \div 2
    /\ UNCHANGED <<crewVars, threads, rate_limiter, thought_logger,
                   search_tool, sub_researcher, bedrock>>

NextSearch ==
    \/ HoursPass
    \/ \E tool \in SearchTools, query \in SearchQueries,
          use_cache \in BOOLEAN, locked \in BOOLEAN :
          SearchBegin(tool, query, use_cache, locked)
    \/ \E tool \in SearchTools, response \in ApiResponses, locked \in BOOLEAN :
          SearchFinish(tool, response, locked)
    \/ \E tool \in SearchTools, locked \in BOOLEAN : ClearExpired(tool, locked)
SpecSearch == InitSearch /\ [][NextSearch]_vars

-----------------------------------------------------------------------------
(* SubResearcher.conduct_research, lines 70-211: the searches of one call.  *)
(* The model proposes queries, each search returns results, an empty list   *)
(* or an error.                                                             *)

\* s[:n] of Python
Slice(s, n) ==
    IF n >= 0 THEN SubSeq(s, 1, Min(n, Len(s)))
    ELSE SubSeq(s, 1, IF Len(s) + n > 0 THEN Len(s) + n ELSE 0)

\* _generate_search_queries, lines 288-313: of the queries the model
\* proposed, the first three
generate_search_queries(phase, proposed) ==
    Slice([i \in 1..proposed |-> <<phase, i>>], QueryLimit)

\* a mutant: the adaptive searches are cut to the whole budget
AdaptiveQueriesUnbudgeted(additional_queries, max_searches, used) ==
    Slice(additional_queries, max_searches)
\* line 180: additional_queries[:max_searches - len(all_queries_used)]
AdaptiveQueries(additional_queries, max_searches, used) ==
    Slice(additional_queries, max_searches - used)

InitResearcher ==
    /\ pc = "researcher"
    /\ sub_researcher =
         [pc |-> "line73",
          max_searches |-> 0,
          search_queries |-> <<>>,
          all_queries_used |-> <<>>,
          all_findings |-> <<>>,
          \* the queries the running loop goes through, and the calls of
          \* search_tool.search so far
          todo |-> <<>>,
          requests |-> 0,
          \* whether the adaptive phase was entered, and what was found and
          \* used when the initial loop ended
          adaptive |-> FALSE,
          found_initially |-> 0,
          used_initially |-> 0]
    /\ now = 0
    /\ threads = Unused
    /\ rate_limiter = Unused
    /\ thought_logger = Unused
    /\ search_tool = Unused
    /\ bedrock = Unused
    /\ CrewUnused

ResearcherFrame ==
    UNCHANGED <<crewVars, now, threads, rate_limiter, thought_logger,
                search_tool, bedrock>>

\* lines 56 and 71-81: the call with its budget, the queries generated, the
\* initial loop over search_queries[:max_searches]
GenerateQueries(max_searches, proposed) ==
    LET search_queries == generate_search_queries("initial", proposed) IN
    /\ sub_researcher.pc = "line73"
    /\ sub_researcher' = [sub_researcher EXCEPT
                             !.pc = "line81",
                             !.max_searches = max_searches,
                             !.search_queries = search_queries,
                             !.todo = Slice(search_queries, max_searches)]
    /\ ResearcherFrame

\* lines 88-143 and 187-211: one search, which returns results, an empty
\* list or an error; a finding is kept only for a non-empty 'results'
SearchStep(outcome) ==
    LET query == Head(sub_researcher.todo) IN
    /\ sub_researcher.todo # <<>>
    /\ sub_researcher' = [sub_researcher EXCEPT
                             !.todo = Tail(@),
                             !.requests = @ + 1,
                             !.all_queries_used = Append(@, query),
                             !.all_findings =
                                 IF outcome = "results"
                                 THEN Append(@, [query |-> query])
                                 ELSE @]

\* one turn of the initial loop, lines 81-162
InitialSearch(outcome) ==
    /\ sub_researcher.pc = "line81"
    /\ SearchStep(outcome)
    /\ ResearcherFrame

\* lines 164-180: after the initial loop; with fewer than 2 findings and
\* budget left, more queries are generated and cut to what is left
AfterInitial(proposed) ==
    LET used == Len(sub_researcher.all_queries_used)
        found == Len(sub_researcher.all_findings)
        additional_queries == generate_search_queries("adaptive", proposed)
    IN
    /\ sub_researcher.pc = "line81"
    /\ sub_researcher.todo = <<>>
    /\ sub_researcher' =
         IF found < 2 /\ sub_researcher.max_searches > used
         THEN [sub_researcher EXCEPT
                 !.pc = "line180",
                 !.adaptive = TRUE,
                 !.found_initially = found,
                 !.used_initially = used,
                 !.todo = AdaptiveQueries(additional_queries,
                                          sub_researcher.max_searches, used)]
         ELSE [sub_researcher EXCEPT
                 !.pc = "line213",
                 !.found_initially = found,
                 !.used_initially = used]
    /\ ResearcherFrame

\* one turn of the adaptive loop, lines 180-211
AdaptiveSearch(outcome) ==
    /\ sub_researcher.pc = "line180"
    /\ SearchStep(outcome)
    /\ ResearcherFrame

\* the adaptive loop is over
AfterAdaptive ==
    /\ sub_researcher.pc = "line180"
    /\ sub_researcher.todo = <<>>
    /\ sub_researcher' = [sub_researcher EXCEPT !.pc = "line213"]
    /\ ResearcherFrame

NextResearcher ==
    \/ \E max_searches \in 0..MaxBudget, proposed \in 0..MaxProposed :
          GenerateQueries(max_searches, proposed)
    \/ \E outcome \in {"results", "empty", "error"} : InitialSearch(outcome)
    \/ \E proposed \in 0..MaxProposed : AfterInitial(proposed)
    \/ \E outcome \in {"results", "empty", "error"} : AdaptiveSearch(outcome)
    \/ AfterAdaptive
SpecResearcher == InitResearcher /\ [][NextResearcher]_vars

-----------------------------------------------------------------------------
(* BedrockClient.invoke_model (src/bedrock_client.py) on the global client  *)
(* `bedrock` (line 119), called from the threads of a worker pool           *)
(* (research_crew.py lines 255-260, through base_agent.py lines 73-90).     *)
(* Each thread makes one call.  A `self.x += v` is a read of the attribute  *)
(* followed by a write: the class has no lock, so the threads' reads and    *)
(* writes interleave.                                                       *)

\* two threads of the pool
ClientThreads == {"t1", "t2"}

\* the usage counters, in the order lines 62-68 update them
Counters == <<"total_input_tokens", "total_output_tokens", "request_count",
              "total_cost">>

\* what a successful response adds to each counter: the tokens of its
\* 'usage' (lines 58-60), one request, the estimated cost (line 67)
Contribution == [total_input_tokens |-> 2, total_output_tokens |-> 1,
                 request_count |-> 1, total_cost |-> 3]

\* what self.client.invoke_model does at an attempt: it returns a response,
\* or raises a ClientError with this error code
ServiceResponses == {"ok", "ThrottlingException", "ValidationException"}

\* a mutant: every ClientError is retried
RetriedAlways(error_code) == error_code # "ok"
\* line 86: the error code that is retried
Retried(error_code) == error_code = "ThrottlingException"

InitClient ==
    /\ pc = "client"
    /\ bedrock = [total_input_tokens |-> 0,
                  total_output_tokens |-> 0,
                  total_cost |-> 0,
                  request_count |-> 0,
                  \* the attempts that had a response, so far
                  succeeded |-> 0,
                  \* how many assignments a running reset_usage_stats has
                  \* made, and whether it was ever called
                  reset_at |-> 0,
                  reset_called |-> FALSE]
    /\ threads = [t \in ClientThreads |->
                    [pc |-> "idle",
                     \* the frames of invoke_model on the thread's stack
                     frames |-> 0,
                     \* the service's answers to the attempts of the call
                     responses |-> <<>>,
                     \* the counter being updated and the value read
                     counter |-> 1,
                     read |-> 0,
                     raised |-> "none"]]
    /\ now = 0
    /\ rate_limiter = Unused
    /\ thought_logger = Unused
    /\ search_tool = Unused
    /\ sub_researcher = Unused
    /\ CrewUnused

ClientFrame ==
    UNCHANGED <<crewVars, now, rate_limiter, thought_logger, search_tool,
                sub_researcher>>

\* base_agent.py line 78: the thread calls bedrock.invoke_model
CallInvoke(t) ==
    /\ threads[t].pc = "idle"
    /\ threads' = [threads EXCEPT ![t].pc = "line48", ![t].frames = 1]
    /\ UNCHANGED bedrock
    /\ ClientFrame

\* lines 45-55 and 82-91: one attempt.  A response goes on to the counters.
\* A ThrottlingException sleeps and calls invoke_model again from inside the
\* handler (line 89), one frame deeper each time: the code has no retry cap,
\* and what ends the retries is the interpreter's RecursionError once the
\* stack holds as many frames as it allows.  Any other ClientError is raised
\* as an Exception (line 91).
Attempt(t, response) ==
    /\ threads[t].pc = "line48"
    /\ threads' = [threads EXCEPT ![t] =
         LET th == [@ EXCEPT !.responses = Append(@, response)] IN
         IF response = "ok"
         THEN [th EXCEPT !.pc = "read", !.counter = 1]
         ELSE IF Retried(response)
         THEN IF th.frames < MaxRecursion
              THEN [th EXCEPT !.frames = @ + 1]
              ELSE [th EXCEPT !.pc = "raised", !.raised = "RecursionError"]
         ELSE [th EXCEPT !.pc = "raised", !.raised = "Exception"]]
    /\ bedrock' = [bedrock EXCEPT !.succeeded =
                      IF response = "ok" THEN @ + 1 ELSE @]
    /\ ClientFrame

\* lines 62-68, first half of a `+=`: the attribute is read
ReadCounter(t) ==
    /\ threads[t].pc = "read"
    /\ threads' = [threads EXCEPT ![t].pc = "write",
                                  ![t].read = bedrock[Counters[threads[t].counter]]]
    /\ UNCHANGED bedrock
    /\ ClientFrame

\* lines 62-68, second half of a `+=`: the sum is written back; after the
\* last counter the call returns (lines 70-80)
WriteCounter(t) ==
    LET name == Counters[threads[t].counter] IN
    /\ threads[t].pc = "write"
    /\ bedrock' = [bedrock EXCEPT ![name] = threads[t].read + Contribution[name]]
    /\ threads' = [threads EXCEPT ![t] =
                      IF threads[t].counter < Len(Counters)
                      THEN [@ EXCEPT !.pc = "read", !.counter = @ + 1, !.read = 0]
                      ELSE [@ EXCEPT !.pc = "returned", !.counter = 1, !.read = 0]]
    /\ ClientFrame

\* reset_usage_stats, lines 111-116, called from a thread of its own: one of
\* its four assignments of 0, with no lock either
ResetStep ==
    LET \* the attributes in the order lines 113-116 assign them
        ResetOrder == <<"total_input_tokens", "total_output_tokens",
                        "total_cost", "request_count">>
        done == bedrock.reset_at + 1
    IN
    /\ bedrock' = [bedrock EXCEPT
                      ![ResetOrder[done]] = 0,
                      !.reset_at = IF done < Len(ResetOrder) THEN done ELSE 0,
                      !.reset_called = TRUE]
    /\ UNCHANGED threads
    /\ ClientFrame

ClientStep(t) ==
    \/ CallInvoke(t)
    \/ \E response \in ServiceResponses : Attempt(t, response)
    \/ ReadCounter(t)
    \/ WriteCounter(t)

NextClient ==
    \/ \E t \in ClientThreads : ClientStep(t)
    \/ ResetStep

\* every thread of the pool keeps running
SpecClient ==
    /\ InitClient
    /\ [][NextClient]_vars
    /\ \A t \in ClientThreads : WF_vars(ClientStep(t))

-----------------------------------------------------------------------------
(* Properties of the orchestration loop. *)

IsPrefix(a, b) == Len(a) <= Len(b) /\ \A i \in 1..Len(a) : a[i] = b[i]
LoopLeft == pc \in {"factcheck", "synthesize", "done", "raised"}
InPool == pc \in {"pool", "targeted"}

\* C1: whatever the Quality Gate reports, conduct_research starts at most
\* max_iterations = 3 worker pools (one initial, at most two targeted) and
\* calls evaluate_findings at most 3 times, and once the loop is left no
\* pool is started, no unit submitted and no evaluation made.
C1_BoundedRounds ==
    /\ [](rounds <= max_iterations /\ Len(gateAt) <= max_iterations)
    /\ [][LoopLeft => (rounds' = rounds /\ gateAt' = gateAt /\ units' = units
                        /\ LoopLeft')]_vars
\* three pools and three evaluations, the last one still below the threshold
C1_Witness ==
    /\ pc = "done"
    /\ rounds = 3
    /\ Len(gateAt) = 3
    /\ ~FracGE(report.overall_quality, FromInt(75))

\* C2: at the decision, an overall score >= 75 (75 itself included) leaves
\* the loop without starting anything, and the loop continues (a targeted
\* pool, or the next iteration) only if overall < 75 and iteration < 3.
C2_ThresholdInclusive ==
    [][(pc = "decide" /\ pc' # "decide") =>
          /\ (FracGE(report.overall_quality, FromInt(75)) =>
                  (pc' = "factcheck" /\ rounds' = rounds /\ iteration' = iteration))
          /\ (pc' \in {"targeted", "loop"} =>
                  (FracLT(report.overall_quality, FromInt(75)) /\ iteration < 3))]_vars
\* a first evaluation of exactly 75 ended the loop
C2_Witness ==
    /\ pc = "factcheck"
    /\ report.overall_quality = FromInt(75)
    /\ Len(gateAt) = 1
    /\ rounds = 1

\* C3: the accumulated findings only grow: every step keeps the list it had
\* as a prefix of the new one, and the report returned holds exactly the
\* accumulated list.
C3_FindingsOnlyGrow ==
    /\ [][IsPrefix(findings, findings')]_vars
    /\ [](pc = "done" => result.findings = findings)
\* a finished run whose report holds findings of the initial round, of a
\* targeted round, and the fact-check entry
C3_Witness ==
    /\ pc = "done"
    /\ \E i, j, k \in 1..Len(result.findings) :
           /\ result.findings[i].unit[1] = 1
           /\ result.findings[j].unit[1] = 2
           /\ result.findings[k] = FactCheckFinding

\* C4 (as claimed): when a pool's as_completed loop is over, the list it
\* returns has exactly one entry per submitted unit.
C4_OneFindingPerUnit ==
    (InPool /\ PoolJoined) => Len(poolFindings) = Cardinality(pool)

\* C5 (as claimed): when a pool's as_completed loop is over, the returned
\* list holds an error Finding for a unit exactly if that unit raised.
C5_ErrorFindingIffFailed ==
    (InPool /\ PoolJoined) =>
        \A u \in pool :
            (\E i \in 1..Len(poolFindings) :
                 poolFindings[i].unit = u /\ poolFindings[i].error)
            <=> units[u] = "raised"

\* C6 (as claimed): a below-threshold decision that derives no targeted
\* angle leaves the loop at once, without counting a further iteration.
C6_NoTargetsTerminates ==
    [][(/\ pc = "decide"
        /\ pc' \notin {"decide", "raised"}
        /\ ~MeetsThreshold(report)
        /\ targeted_angles(MissingAspects(report), Improvements(report)) = <<>>)
       => (pc' = "factcheck" /\ iteration' = iteration)]_vars

\* the aspects a report lists: the lines of its MISSING_INFO section
ReportedAspects(rep) ==
    IF rep.missing_info = <<>> THEN <<>> ELSE Split(rep.missing_info, "\n")

\* C7 (as claimed): when the loop continues, a report listing n >= 1 missing
\* aspects gives min(n, 2) targeted units, one per each of the first aspects;
\* the single fallback unit is used only when no aspect is listed; never
\* more than 2 units.
C7_TargetsFromAspects ==
    [][(pc = "decide" /\ pc' \in {"targeted", "loop"}) =>
          LET created == IF pc' = "targeted" THEN pool' ELSE {}
              n == Len(ReportedAspects(report))
          IN /\ Cardinality(created) <= 2
             /\ n >= 1 =>
                  /\ Cardinality(created) = Min(n, 2)
                  /\ \A i \in 1..Min(n, 2) :
                       \E u \in created :
                           angles'[u] = [kind |-> "aspect",
                                         of |-> ReportedAspects(report)[i]]
             /\ (\E u \in created : angles'[u].kind = "improvement") => n = 0]_vars

\* the findings now accumulated that come from pools 1..k
FindingsThrough(k) ==
    Cardinality({i \in 1..Len(findings) :
                    findings[i].unit[1] >= 1 /\ findings[i].unit[1] <= k})

\* C8: a unit of pool k+1 has started only if every unit of the pools up to
\* k has completed and evaluate_findings was called on the findings
\* accumulated through pool k; and a pool returns only when each of its
\* units has completed and been handled.
C8_RoundBarrier ==
    /\ [](\A u \in DOMAIN units :
             units[u] # "submitted" =>
                 /\ \A v \in DOMAIN units : v[1] < u[1] => Done(v)
                 /\ u[1] > 1 =>
                      \E e \in 1..Len(gateAt) :
                          /\ gateAt[e].rounds = u[1] - 1
                          /\ gateAt[e].seen = FindingsThrough(u[1] - 1))
    /\ [][(InPool /\ pc' = "loop") =>
             \A u \in pool : Done(u) /\ u \in collected]_vars
\* a unit of the second pool runs after a first pool of two units, one of
\* which raised
C8_Witness ==
    /\ \E u \in DOMAIN units : u[1] = 2 /\ units[u] = "running"
    /\ units[<<1, 1>>] = "raised"
    /\ <<1, 2>> \in DOMAIN units

\* C9 (as claimed): a pool with a unit that never completes is not stuck:
\* some step (the timeout that turns the unit into an error Finding) is
\* still possible.
C9_HungUnitTimesOut ==
    (InPool /\ \E u \in pool : units[u] = "hung") => ENABLED Next

-----------------------------------------------------------------------------
(* Properties of the Quality Gate's parser. *)

ScoreFields == {<<"COMPLETENESS_SCORE", "completeness_score">>,
                <<"ACCURACY_SCORE", "accuracy_score">>,
                <<"CONFIDENCE", "confidence">>}
SectionFields == {<<"MISSING_INFO", "missing_info">>,
                  <<"CONTRADICTIONS", "contradictions">>,
                  <<"IMPROVEMENTS", "improvements">>,
                  <<"EVALUATION", "evaluation">>}
ReportFields == {"completeness_score", "accuracy_score", "confidence",
                 "missing_info", "contradictions", "improvements",
                 "evaluation", "overall_quality", "recommendation"}

\* the lines of txt that hold the marker and some number
NumberLines(txt, marker) ==
    {i \in 1..Len(Split(txt, "\n")) :
        marker \in Range(Split(txt, "\n")[i]) /\ HasNumber(Split(txt, "\n")[i])}
\* the marker is absent, or on no line with a number, or the first number of
\* its first such line is malformed
Unparsable(txt, marker) ==
    \/ marker \notin Range(txt)
    \/ NumberLines(txt, marker) = {}
    \/ LET first == CHOOSE i \in NumberLines(txt, marker) :
                        \A j \in NumberLines(txt, marker) : i <= j
       IN ~FloatOk(FirstNumber(Split(txt, "\n")[first]))

\* C10: for every judgment text evaluate_findings returns a full report;
\* each score whose marker is absent or unparsable is 0 and each section
\* whose marker is absent is empty.
C10_ParsingTotal ==
    pc = "parsed" =>
        /\ DOMAIN report = ReportFields
        /\ \A f \in ScoreFields :
               Unparsable(text, f[1]) => report[f[2]] = Zero
        /\ \A f \in SectionFields :
               f[1] \notin Range(text) => report[f[2]] = <<>>
\* a malformed number after the marker, a well-formed one on a later line:
\* the score is 0
C10_Witness ==
    /\ pc = "parsed"
    /\ text = <<"COMPLETENESS_SCORE", ".", "\n", "COMPLETENESS_SCORE", "8">>
    /\ report.completeness_score = Zero
    /\ report.accuracy_score = Zero
    /\ report.missing_info = <<>>

-----------------------------------------------------------------------------
(* Properties of the reports of the Quality Gate. *)

\* C11: evaluate_findings called with an empty Finding list returns a report
\* whose overall score is 0, whatever the judgment text.
C11_EmptyFindingsScoreZero ==
    (pc = "parsed" /\ findings = <<>>) => report.overall_quality = Zero

\* the mean of two scores, as an exact fraction
Mean(x, y) == FracDiv(FracAdd(x, y), 2)

\* C12: in every report overall_quality is the mean of the report's own
\* completeness_score and accuracy_score, so the loop's threshold test on
\* the report is a test on that mean and on nothing else.
C12_OverallIsMean ==
    pc = "parsed" =>
        /\ report.overall_quality =
               Mean(report.completeness_score, report.accuracy_score)
        /\ MeetsThreshold(report) <=>
               FracGE(FracAdd(report.completeness_score, report.accuracy_score),
                      FromInt(2 * quality_threshold))
\* completeness 8, accuracy unparsable: the overall score is 4
C12_Witness ==
    /\ pc = "parsed"
    /\ report.completeness_score = FromInt(8)
    /\ report.accuracy_score = Zero
    /\ report.overall_quality = FromInt(4)
    /\ ~MeetsThreshold(report)

\* C13: for every judgment text the completeness, accuracy and overall
\* scores of the report lie in [0, 100].
C13_ScoresInRange ==
    pc = "parsed" =>
        \A f \in {"completeness_score", "accuracy_score", "overall_quality"} :
            FracGE(report[f], Zero) /\ FracGE(FromInt(100), report[f])

\* the WorkItems of the initial pool, in submission order
InitialItems == [i \in 1..Cardinality(pool) |-> angles[<<1, i>>]]
ParsedAngles == AnglesFrom(Split(plan, "\n"), 1)

\* C14: for every plan text the initial pool has at least one WorkItem, at
\* most num_sub_researchers and at most 5: the first parsed angles, or the
\* first of the four default angles when the plan has no parsable angle.
C14_InitialItemsBounded ==
    pc = "pool" =>
        /\ pool # {}
        /\ pool = {<<1, i>> : i \in 1..Cardinality(pool)}
        /\ Cardinality(pool) <= num_sub_researchers
        /\ Cardinality(pool) <= AngleLimit
        /\ LET parsed == ParsedAngles IN
           InitialItems =
               IF parsed = <<>>
               THEN Take(DefaultAngles, num_sub_researchers)
               ELSE Take(parsed, Min(num_sub_researchers, AngleLimit))
\* six parsable angles and a crew of six: five WorkItems
C14_Witness ==
    /\ pc = "pool"
    /\ Len(ParsedAngles) > AngleLimit
    /\ num_sub_researchers > AngleLimit
    /\ Cardinality(pool) = AngleLimit

-----------------------------------------------------------------------------
(* Properties of the report and of the failures around the loop. *)

PersistenceCalls == {"create_session", "save_finding", "complete_session"}

\* C15 (as claimed): no failure of research_db.create_session, save_finding
\* or complete_session keeps conduct_research from returning its report,
\* and none changes the findings: no exception of a persistence call leaves
\* conduct_research and no finding records one.
C15_PersistenceIndependent ==
    /\ pc = "raised" => result.raised \notin PersistenceCalls
    /\ \A i \in 1..Len(findings) : findings[i].findings \notin PersistenceCalls

\* C16 (as claimed): the findings of the returned report are the Findings of
\* the WorkItems of all rounds, one per WorkItem and nothing else.
C16_OneFindingPerItem ==
    pc = "done" =>
        /\ Len(result.findings) = Cardinality(DOMAIN units)
        /\ \A u \in DOMAIN units :
               Cardinality({i \in 1..Len(result.findings) :
                               result.findings[i].unit = u}) = 1

\* a note in the report that the quality threshold was never met
ThresholdNote(res) == "metadata" \in DOMAIN res

\* C17 (as claimed): the returned report carries a metadata note that the
\* quality threshold was never met exactly when the loop ended at the
\* round cap with every evaluation below the threshold.
C17_NoteWhenNeverMet ==
    (pc = "done" /\ enable_quality_control) =>
        (ThresholdNote(result) <=> ~MeetsThreshold(report))

\* C18: whatever units raise, in whatever round, no exception of a unit
\* leaves conduct_research, and the report returned holds every finding
\* accumulated, with the error finding of each initial unit that raised.
C18_BestEffortReport ==
    /\ pc = "raised" => result.raised # "conduct_research"
    /\ pc = "done" =>
           /\ IsPrefix(findings, result.findings)
           /\ Len(result.findings) = Len(findings)
           /\ \A u \in DOMAIN units :
                  (u[1] = 1 /\ units[u] = "raised") =>
                      \E i \in 1..Len(result.findings) :
                          result.findings[i] = ErrorFinding(u, "conduct_research")
\* a report returned after three rounds in which every unit raised
C18_Witness ==
    /\ pc = "done"
    /\ rounds = max_iterations
    /\ \A u \in DOMAIN units : units[u] = "raised"
    /\ \E i \in 1..Len(result.findings) : result.findings[i].error

\* C19 (as claimed): a run given a progress_callback does what the run
\* without one does, whatever the callback does: no exception of the
\* callback leaves conduct_research and no finding records one.
C19_CallbackObservational ==
    /\ pc = "raised" => result.raised # "progress_callback"
    /\ \A i \in 1..Len(findings) : findings[i].findings # "progress_callback"

-----------------------------------------------------------------------------
(* Properties of the source deduplication. *)

\* C20: deduplicating by URL the list a deduplication returned gives that
\* same list: the second pass changes nothing.
C20_DedupIdempotent ==
    [][pc = "deduped" => unique_sources' = unique_sources]_vars
\* two passes over a list with a repeated URL and a source without URL: the
\* first pass kept two of its three sources, the second all of these
C20_Witness ==
    /\ pc = "deduped_again"
    /\ Len(sources) = 3
    /\ Len(unique_sources) = 2
    /\ \E i, j \in 1..Len(sources) :
           i < j /\ "url" \in DOMAIN sources[i] /\ "url" \in DOMAIN sources[j]
                 /\ sources[i].url = sources[j].url /\ sources[i].url # ""

\* the URLs occurring in a source list, and a source's relevance score
Urls(all) == {Get(all[i], "url", "") : i \in 1..Len(all)} \ {""}
Score(source) == Get(source, "score", 0)

\* C21: the deduplicated list holds exactly one entry for each distinct URL
\* of the input (a source with no or an empty url has none), that entry is
\* one of the input's sources with that URL, and its score is the highest
\* among them.
C21_DedupKeepsHighest ==
    pc = "deduped" =>
        /\ \A k \in 1..Len(unique_sources) :
               /\ "url" \in DOMAIN unique_sources[k]
               /\ unique_sources[k].url \in Urls(sources)
               /\ \E i \in 1..Len(sources) : sources[i] = unique_sources[k]
        /\ \A url \in Urls(sources) :
               /\ Cardinality({k \in 1..Len(unique_sources) :
                                   unique_sources[k].url = url}) = 1
               /\ \A k \in 1..Len(unique_sources), i \in 1..Len(sources) :
                      (unique_sources[k].url = url /\ Get(sources[i], "url", "") = url)
                          => Score(unique_sources[k]) >= Score(sources[i])
\* a URL seen first with score 0 and later with score 1: the later copy is
\* the one kept
C21_Witness ==
    /\ pc = "deduped"
    /\ Len(sources) = 3
    /\ \E i, j \in 1..Len(sources) :
           /\ i < j
           /\ Get(sources[i], "url", "") = "a"
           /\ Get(sources[j], "url", "") = "a"
           /\ Score(sources[i]) = 0
           /\ Score(sources[j]) = 1
           /\ \E k \in 1..Len(unique_sources) : unique_sources[k] = sources[j]
-----------------------------------------------------------------------------
(* Properties of the caller's controls over the loop. *)

\* C22 (as claimed): a crew given max_iterations = 2 is built, and its
\* conduct_research starts at most 2 pools; a crew given no max_iterations
\* starts at most 3.
C22_CapConfigurable ==
    IF "max_iterations" \in DOMAIN kwargs
    THEN /\ ~(pc = "raised" /\ result = [raised |-> "TypeError"])
         /\ rounds <= kwargs["max_iterations"]
    ELSE rounds <= max_iterations

\* C23 (as claimed): once the caller has asked for cancellation while a pool
\* was running, no further pool is started.
C23_NoPoolAfterCancel ==
    [][cancel_requested => rounds' = rounds]_vars

\* C30: a crew without quality control starts exactly one pool, never
\* consults the Quality Gate, starts no targeted research and no
\* fact-checking; the findings given to the synthesis and placed in the
\* report are the list the initial pool returned.
C30_NoQualityControl ==
    ~enable_quality_control =>
        /\ rounds <= 1
        /\ gateAt = <<>>
        /\ report = NoReport
        /\ pc \notin {"decide", "targeted", "factcheck"}
        /\ \A i \in 1..Len(findings) :
              findings[i] # FactCheckFinding /\ findings[i].unit[1] = 1
        /\ pc \in {"synthesize", "done"} =>
              rounds = 1 /\ findings = poolFindings
        /\ pc = "done" => result.findings = poolFindings
C30_Witness ==
    /\ ~enable_quality_control
    /\ pc = "done"
    /\ rounds = 1
    /\ Len(result.findings) = Cardinality(pool)
    /\ Len(result.findings) = MaxResearchers

-----------------------------------------------------------------------------
(* Properties of the rate limiter. *)

\* the number of admitted calls of the key with a timestamp in from..to
RECURSIVE AdmittedIn(_, _, _)
AdmittedIn(key, from, to) ==
    IF from > to THEN 0
    ELSE rate_limiter.admitted[key][from] + AdmittedIn(key, from + 1, to)

\* C25 (as claimed): under every interleaving, for every key and every
\* window of window_seconds seconds, at most max_calls of the calls that
\* returned True have their timestamp inside the window.
C25_NeverOverLimit ==
    \A key \in LimiterKeys, start \in 0..MaxTime :
        AdmittedIn(key, start, Min(start + window_seconds - 1, MaxTime))
            <= max_calls

-----------------------------------------------------------------------------
(* Properties of the thought logger. *)

\* C26 (as claimed): once start_new_session has returned, neither the
\* thoughts list nor the log file of the new session holds a thought that
\* was logged before that call of start_new_session.
C26_SessionIsolated ==
    (pc = "logger" /\ threads.ui.pc = "idle" /\ thought_logger.sessions >= 1) =>
        LET file == thought_logger.files[thought_logger.log_file] IN
        /\ \A i \in 1..Len(thought_logger.thoughts) :
              thought_logger.thoughts[i].session >= thought_logger.sessions
        /\ \A i \in 1..Len(file) : file[i].session >= thought_logger.sessions

-----------------------------------------------------------------------------
(* Properties of the search tool. *)

\* C27 (as claimed): once a search for a query, with caching, has stored
\* the results the API gave it, whatever result list that was, every search
\* for the query with caching begun before the time-to-live is over returns
\* the stored results with from_cache = True, calls the API no more, leaves
\* search_count alone and adds one to cache_hits; and a search that failed
\* has stored nothing and left search_count alone.
C27_RepeatsFromCache ==
    [][\A tool \in SearchTools :
          LET t == search_tool.tools[tool]
              after == search_tool'.tools[tool]
          IN
          /\ (/\ pc = "search"
              /\ after.calls = t.calls + 1
              /\ after.use_cache
              /\ search_tool.succeeded[after.query] >= 0
              /\ now < search_tool.succeeded[after.query] + ttl_hours)
             => /\ after.pc = "idle"
                /\ Get(after.ret, "from_cache", FALSE)
                /\ after.ret.results = search_tool.cache[after.query].results
                /\ search_tool'.api_calls = search_tool.api_calls
                /\ after.search_count = t.search_count
                /\ after.cache_hits = t.cache_hits + 1
          /\ (/\ pc = "search"
              /\ t.pc = "line137"
              /\ after.pc = "idle"
              /\ "error" \in DOMAIN after.ret)
             => /\ after.search_count = t.search_count
                /\ search_tool'.cache = search_tool.cache
          \* at line 169 search_count has grown: no failure from there
          /\ (/\ pc = "search"
              /\ t.pc = "line169"
              /\ after.pc = "idle")
             => "error" \notin DOMAIN after.ret]_vars

-----------------------------------------------------------------------------
(* Properties of the searches of a sub-researcher. *)

\* C28: whatever the model proposes and whatever the searches return, a call
\* of conduct_research with a budget max_searches >= 0 calls the search tool
\* at most max_searches times, the initial and the adaptive searches
\* together; the adaptive phase is entered only if fewer than 2 searches had
\* results and fewer than max_searches searches were made.
C28_SearchBudget ==
    pc = "researcher" =>
        /\ sub_researcher.requests <= sub_researcher.max_searches
        /\ sub_researcher.requests = Len(sub_researcher.all_queries_used)
        /\ sub_researcher.requests + Len(sub_researcher.todo)
              <= sub_researcher.max_searches
        /\ sub_researcher.adaptive =>
              /\ sub_researcher.found_initially < 2
              /\ sub_researcher.used_initially < sub_researcher.max_searches
C28_Witness ==
    /\ pc = "researcher"
    /\ sub_researcher.pc = "line213"
    /\ sub_researcher.adaptive
    /\ sub_researcher.used_initially = 1
    /\ sub_researcher.requests = sub_researcher.max_searches
    /\ sub_researcher.requests = QueryLimit
    /\ Len(sub_researcher.all_findings) = 1

-----------------------------------------------------------------------------
(* Properties of the model client. *)

ClientFinished(t) == threads[t].pc \in {"returned", "raised"}

\* C24 (as claimed): when all the threads' calls are over, and nothing has
\* reset the counters meanwhile, each usage counter is the sum of the
\* contributions of the successful calls.
C24_CountersAddUp ==
    (/\ pc = "client"
     /\ \A t \in ClientThreads : ClientFinished(t)
     /\ ~bedrock.reset_called) =>
        \A i \in 1..Len(Counters) :
            bedrock[Counters[i]] = bedrock.succeeded * Contribution[Counters[i]]

\* the usage counters of the client
Usage == [i \in 1..Len(Counters) |-> bedrock[Counters[i]]]

\* what holds of the attempts of thread t's call: they are at most as many
\* as the stack has frames; only an attempt answered with a
\* ThrottlingException was followed by another; a call that returned had a
\* response at its last attempt, a call that raised had another ClientError
\* at its last attempt, or a ThrottlingException with the stack used up
AttemptsInOrder(t) ==
    LET responses == threads[t].responses
        n == Len(responses)
    IN  /\ n <= MaxRecursion
        /\ \A i \in 1..(n - 1) : responses[i] = "ThrottlingException"
        /\ threads[t].pc = "returned" => responses[n] = "ok"
        /\ threads[t].pc = "raised" =>
              \/ /\ responses[n] = "ValidationException"
                 /\ threads[t].raised = "Exception"
              \/ /\ responses[n] = "ThrottlingException"
                 /\ n = MaxRecursion
                 /\ threads[t].raised = "RecursionError"

\* C29: whatever the service answers, a call of invoke_model makes a bounded
\* number of attempts and then returns or raises (a service that throttles
\* every attempt is retried until the stack is used up, and the call raises);
\* a ClientError other than ThrottlingException is raised at once, without
\* another attempt; invoke_model changes the usage counters only in a call
\* whose attempt had a response (the one other thing that changes them is a
\* reset_usage_stats).
C29_InvokeFinishes ==
    /\ [](\A t \in ClientThreads : AttemptsInOrder(t))
    /\ [][Usage' # Usage =>
             \/ \E t \in ClientThreads :
                    /\ threads[t].pc = "write"
                    /\ threads'[t] # threads[t]
                    /\ threads[t].responses[Len(threads[t].responses)] = "ok"
             \/ /\ threads' = threads
                /\ bedrock'.reset_at # bedrock.reset_at]_vars
    /\ \A t \in ClientThreads : (threads[t].pc = "line48") ~> ClientFinished(t)
C29_Witness ==
    /\ pc = "client"
    /\ \E t \in ClientThreads :
          /\ threads[t].pc = "raised"
          /\ threads[t].raised = "RecursionError"
          /\ threads[t].responses = [i \in 1..MaxRecursion |-> "ThrottlingException"]
    /\ \E t \in ClientThreads :
          /\ threads[t].pc = "returned"
          /\ threads[t].responses = <<"ThrottlingException", "ok">>
    /\ bedrock.request_count >= 1

====
